---- MODULE Spec2Model ----
(***************************************************************************)
(* URBANITE ultrasonic parking aid: the four cooperating state machines    *)
(* (button, ultrasound, display, Urbanite), the port records they share    *)
(* with the interrupt service routines, and the main loop of main.c.       *)
(*                                                                         *)
(* Every C struct is a record; a C function that changes state is an       *)
(* operator from the world (the records it may touch) to the world after   *)
(* the call, so that a handler is the composition of the calls it makes.   *)
(*                                                                         *)
(* Time.  Milliseconds are kept as the code keeps them, but physical time  *)
(* advances MsPerTick ms at a step (PhysTick), and the model stores the    *)
(* difference the code computes (now - tick) instead of the absolute       *)
(* counter, saturated just above the largest threshold it is compared      *)
(* with.  One iteration of the main loop is far shorter than a             *)
(* millisecond, so physical time advances only while the CPU is halted in  *)
(* WFI, busy-waits in port_system_delay_ms, or no state machine has a      *)
(* transition to fire.                                                     *)
(*                                                                         *)
(* The timers (TIM3, TIM5, the update event of TIM2) and the sensor are    *)
(* not timed: their interrupts arrive at any moment at which the hardware  *)
(* has them enabled, and weak fairness makes the ones that are due arrive. *)
(* A capture interrupt is raised only while TIM2 counts; the EXTI handler  *)
(* runs at the edge of the button line that raises it.                     *)
(***************************************************************************)
EXTENDS Integers, Sequences, FiniteSets, TLC

(* ---------------------------- program constants ------------------------ *)
PORT_PARKING_BUTTON_DEBOUNCE_TIME_MS == 150
URBANITE_ON_OFF_PRESS_TIME_MS == 1000
URBANITE_PAUSE_DISPLAY_TIME_MS == 250
URBANITE_EMERGENCY_TIME_MS == 3000
EMERGENCY_DELAY_MS == 1000
EMERGENCY_DISTANCE_OFF_CM == 500
FSM_ULTRASOUND_NUM_MEASUREMENTS == 5
TIM2_PERIOD == 65536
DISTANCE_DIVISOR == 583
DANGER_MIN_CM == 0
WARNING_MIN_CM == 25
NO_PROBLEM_MIN_CM == 50
INFO_MIN_CM == 150
OK_MIN_CM == 175
OK_MAX_CM == 200

(* ------------------------------- bounds -------------------------------- *)
\* Milliseconds of physical time that pass in one PhysTick step.
MsPerTick == 500

\* Presses of the button in one run.
MaxPresses == 3

\* Differences of millisecond ticks are compared with thresholds of at most
\* URBANITE_EMERGENCY_TIME_MS: one value above it stands for all larger ones.
TimeCap == URBANITE_EMERGENCY_TIME_MS + 1

TickAdd(t) == IF t + MsPerTick > URBANITE_EMERGENCY_TIME_MS THEN TimeCap ELSE t + MsPerTick

\* Capture values (TIM2->CCR2, microseconds) the echo edges may latch while the
\* whole system runs: a rising edge at 100, a falling edge 583 us (10 cm) or
\* 1749 us (30 cm) later.
RiseTicks == {100}
FallTicks == {683}

VARIABLES
    cpu,    \* main loop: pc, SysTick running, ms left of a busy wait
    btn,    \* button: FSM fields, buttons_arr[0].flag_pressed, the GPIO level
    us,     \* struct fsm_ultrasound_t
    hw,     \* ultrasounds_arr[0], the CEN bits of TIM2/TIM3/TIM5, trigger pin, sensor
    disp,   \* struct fsm_display_t and the colour last written to the LED
    urb,    \* struct fsm_urbanite_t
    obs     \* observations of the run (no code reads them)

vars == <<cpu, btn, us, hw, disp, urb, obs>>

World == [btn |-> btn, us |-> us, hw |-> hw, disp |-> disp, urb |-> urb]

(* =============================== colours =============================== *)
COLOR_OFF == <<0, 0, 0>>
COLOR_RED == <<255, 0, 0>>
COLOR_YELLOW == <<255, 255, 0>>
COLOR_GREEN == <<0, 255, 0>>
COLOR_TURQUOISE == <<0, 255, 255>>
COLOR_BLUE == <<0, 0, 255>>

Uint8(x) == x % 256

\* _interpolate_color keeping the sum in 16 bits before the division.
_interpolate_color_in_16_bits(c1, c2, t) ==
    << Uint8((((255 - t) * c1[1] + t * c2[1]) % 65536) \div 256),
       Uint8((((255 - t) * c1[2] + t * c2[2]) % 65536) \div 256),
       Uint8((((255 - t) * c1[3] + t * c2[3]) % 65536) \div 256) >>

_interpolate_color(c1, c2, t) ==
    << Uint8(((255 - t) * c1[1] + t * c2[1]) \div 255),
       Uint8(((255 - t) * c1[2] + t * c2[2]) \div 255),
       Uint8(((255 - t) * c1[3] + t * c2[3]) \div 255) >>

\* The parameter scaled by 256 instead of 255.
InterpolationT_scaled_by_256(d, lo, hi) == Uint8((Uint8(d - lo) * 256) \div (hi - lo))

InterpolationT(d, lo, hi) == Uint8((Uint8(d - lo) * 255) \div (hi - lo))

_compute_display_levels(d) ==
    IF d >= DANGER_MIN_CM /\ d <= WARNING_MIN_CM
      THEN _interpolate_color(COLOR_RED, COLOR_YELLOW, InterpolationT(d, DANGER_MIN_CM, WARNING_MIN_CM))
    ELSE IF d > WARNING_MIN_CM /\ d <= NO_PROBLEM_MIN_CM
      THEN _interpolate_color(COLOR_YELLOW, COLOR_GREEN, InterpolationT(d, WARNING_MIN_CM, NO_PROBLEM_MIN_CM))
    ELSE IF d > NO_PROBLEM_MIN_CM /\ d <= INFO_MIN_CM
      THEN _interpolate_color(COLOR_GREEN, COLOR_TURQUOISE, InterpolationT(d, NO_PROBLEM_MIN_CM, INFO_MIN_CM))
    ELSE IF d > INFO_MIN_CM /\ d <= OK_MIN_CM
      THEN _interpolate_color(COLOR_TURQUOISE, COLOR_BLUE, InterpolationT(d, INFO_MIN_CM, OK_MIN_CM))
    ELSE IF d > OK_MIN_CM /\ d <= OK_MAX_CM
      THEN COLOR_BLUE
    ELSE COLOR_OFF

(* ============================= display FSM ============================= *)
port_display_set_rgb(w, color) == [w EXCEPT !.disp.rgb = color]

\* fsm_display_set_distance storing the distance without raising new_color.
fsm_display_set_distance_without_new_color(w, distance_cm) ==
    [w EXCEPT !.disp.distance_cm = distance_cm]

fsm_display_set_distance(w, distance_cm) ==
    [w EXCEPT !.disp.distance_cm = distance_cm, !.disp.new_color = TRUE]

fsm_display_set_status(w, pause) == [w EXCEPT !.disp.status = pause]

fsm_display_check_activity(w) == w.disp.status /\ ~w.disp.idle

do_set_on(w) == port_display_set_rgb(w, COLOR_OFF)

do_set_color(w) ==
    LET w1 == port_display_set_rgb(w, _compute_display_levels(w.disp.distance_cm))
    IN  [w1 EXCEPT !.disp.new_color = FALSE, !.disp.idle = TRUE]

\* do_set_off leaving idle as it is.
do_set_off_keeping_idle(w) == port_display_set_rgb(w, COLOR_OFF)

do_set_off(w) ==
    LET w1 == port_display_set_rgb(w, COLOR_OFF)
    IN  [w1 EXCEPT !.disp.idle = FALSE]

\* fsm_trans_display: the first row whose origin is the current state and whose
\* guard holds (0: none).
DisplayRow(w) ==
    IF w.disp.state = "WAIT_DISPLAY" /\ w.disp.status THEN 1
    ELSE IF w.disp.state = "SET_DISPLAY" /\ w.disp.new_color THEN 2
    ELSE IF w.disp.state = "SET_DISPLAY" /\ ~w.disp.status THEN 3
    ELSE 0

fsm_display_fire(w) ==
    CASE DisplayRow(w) = 1 -> do_set_on([w EXCEPT !.disp.state = "SET_DISPLAY"])
      [] DisplayRow(w) = 2 -> do_set_color(w)
      [] DisplayRow(w) = 3 -> do_set_off([w EXCEPT !.disp.state = "WAIT_DISPLAY"])
      [] OTHER -> w

(* ====================== ultrasound: the port layer ===================== *)
port_ultrasound_stop_trigger_timer(w) ==
    [w EXCEPT !.hw.trigger_pin = FALSE, !.hw.tim3_cen = FALSE,
              \* the sensor sends its burst when a trigger pulse ends
              !.hw.echo = IF w.hw.trigger_pin /\ w.hw.echo = "idle" THEN "armed" ELSE w.hw.echo]

port_ultrasound_stop_echo_timer(w) == [w EXCEPT !.hw.tim2_cen = FALSE]

port_ultrasound_stop_new_measurement_timer(w) == [w EXCEPT !.hw.tim5_cen = FALSE]

port_ultrasound_start_new_measurement_timer(w) == [w EXCEPT !.hw.tim5_cen = TRUE]

port_ultrasound_reset_echo_ticks(w) ==
    [w EXCEPT !.hw.echo_received = FALSE, !.hw.echo_end_tick = 0,
              !.hw.echo_init_tick = 0, !.hw.echo_overflows = 0]

\* port_ultrasound_start_measurement leaving trigger_ready set.
port_ultrasound_start_measurement_keeping_ready(w) ==
    [w EXCEPT !.hw.trigger_pin = TRUE,
              !.hw.tim5_cen = TRUE, !.hw.tim2_cen = TRUE, !.hw.tim3_cen = TRUE]

port_ultrasound_start_measurement(w) ==
    [w EXCEPT !.hw.trigger_ready = FALSE, !.hw.trigger_pin = TRUE,
              !.hw.tim5_cen = TRUE, !.hw.tim2_cen = TRUE, !.hw.tim3_cen = TRUE]

port_ultrasound_stop_ultrasound(w) ==
    port_ultrasound_reset_echo_ticks(
        port_ultrasound_stop_new_measurement_timer(
            port_ultrasound_stop_echo_timer(
                port_ultrasound_stop_trigger_timer(w))))

port_ultrasound_set_trigger_end(w, b) == [w EXCEPT !.hw.trigger_end = b]

port_ultrasound_set_trigger_ready(w, b) == [w EXCEPT !.hw.trigger_ready = b]

(* ============================ ultrasound FSM =========================== *)
\* _compare of qsort: the difference of two uint32_t, returned as an int.  The
\* distances compared are below 2^31 (see Distance10), where the truncation
\* to int changes nothing.
_compare(a, b) == a - b

RECURSIVE Insert(_, _)
Insert(x, s) ==
    IF s = <<>> THEN <<x>>
    ELSE IF _compare(x, Head(s)) <= 0 THEN <<x>> \o s
    ELSE <<Head(s)>> \o Insert(x, Tail(s))

RECURSIVE qsort(_)
qsort(s) == IF s = <<>> THEN <<>> ELSE Insert(Head(s), qsort(Tail(s)))

\* The median do_set_distance takes from the sorted window.
MedianOfSorted(arr) ==
    IF FSM_ULTRASOUND_NUM_MEASUREMENTS % 2 = 0
      THEN (arr[FSM_ULTRASOUND_NUM_MEASUREMENTS \div 2]
            + arr[FSM_ULTRASOUND_NUM_MEASUREMENTS \div 2 + 1]) \div 2
      ELSE arr[FSM_ULTRASOUND_NUM_MEASUREMENTS \div 2 + 1]

\* (hi * 65536 + lo) * 10 / 583 for a 32-bit value given as two 16-bit halves,
\* computed without leaving the range of the model checker's integers:
\* 655360 = 583 * 1124 + 68.
Distance10(hi, lo) ==
    hi * ((TIM2_PERIOD * 10) \div DISTANCE_DIVISOR)
    + (hi * ((TIM2_PERIOD * 10) % DISTANCE_DIVISOR) + lo * 10) \div DISTANCE_DIVISOR

\* do_set_distance's distance without the decrement of overflows on a wrap.
ComputeDistance_counting_the_wrap(init_tick, end_tick, overflows) ==
    LET wrapped == end_tick < init_tick
        base == IF wrapped THEN (TIM2_PERIOD - init_tick) + end_tick ELSE end_tick - init_tick
        hi == (overflows + base \div TIM2_PERIOD) % TIM2_PERIOD
        lo == base % TIM2_PERIOD
    IN  Distance10(hi, lo)

\* The raw distance do_set_distance computes from the two captures and the
\* overflow counter.  ticks_elapsed is a uint32_t: of overflows * 65536 only
\* the low 16 bits of overflows survive; the product by 10 is 64-bit.
ComputeDistance(init_tick, end_tick, overflows) ==
    LET wrapped == end_tick < init_tick
        base == IF wrapped THEN (TIM2_PERIOD - init_tick) + end_tick ELSE end_tick - init_tick
        ovf == IF wrapped /\ overflows > 0 THEN overflows - 1 ELSE overflows
        hi == (ovf + base \div TIM2_PERIOD) % TIM2_PERIOD
        lo == base % TIM2_PERIOD
    IN  Distance10(hi, lo)

\* do_set_distance raising new_measurement with every raw distance it stores.
do_set_distance_flagging_every_sample(w) ==
    LET distance == ComputeDistance(w.hw.echo_init_tick, w.hw.echo_end_tick, w.hw.echo_overflows)
        arr1 == [w.us.distance_arr EXCEPT ![w.us.distance_idx + 1] = distance]
        full == w.us.distance_idx + 1 >= FSM_ULTRASOUND_NUM_MEASUREMENTS
        sorted == qsort(arr1)
        w1 == IF full
                THEN [w EXCEPT !.us.distance_idx = 0, !.us.distance_arr = sorted,
                               !.us.distance_cm = MedianOfSorted(sorted),
                               !.us.new_measurement = TRUE]
                ELSE [w EXCEPT !.us.distance_idx = w.us.distance_idx + 1,
                               !.us.distance_arr = arr1,
                               !.us.new_measurement = TRUE]
    IN  port_ultrasound_reset_echo_ticks(port_ultrasound_stop_echo_timer(w1))

do_set_distance(w) ==
    LET distance == ComputeDistance(w.hw.echo_init_tick, w.hw.echo_end_tick, w.hw.echo_overflows)
        arr1 == [w.us.distance_arr EXCEPT ![w.us.distance_idx + 1] = distance]
        full == w.us.distance_idx + 1 >= FSM_ULTRASOUND_NUM_MEASUREMENTS
        sorted == qsort(arr1)
        w1 == IF full
                THEN [w EXCEPT !.us.distance_idx = 0, !.us.distance_arr = sorted,
                               !.us.distance_cm = MedianOfSorted(sorted),
                               !.us.new_measurement = TRUE]
                ELSE [w EXCEPT !.us.distance_idx = w.us.distance_idx + 1,
                               !.us.distance_arr = arr1]
    IN  port_ultrasound_reset_echo_ticks(port_ultrasound_stop_echo_timer(w1))

do_start_measurement(w) == port_ultrasound_start_measurement(w)

do_stop_measurement(w) == port_ultrasound_stop_ultrasound(w)

do_stop_trigger(w) ==
    port_ultrasound_set_trigger_end(port_ultrasound_stop_trigger_timer(w), FALSE)

\* fsm_trans_ultrasound: the first matching row (0: none).
\* fsm_trans_ultrasound with check_off tested before check_new_measurement.
UltrasoundRow_check_off_first(w) ==
    IF w.us.state = "WAIT_START" /\ w.hw.trigger_ready /\ w.us.status THEN 1
    ELSE IF w.us.state = "TRIGGER_START" /\ w.hw.trigger_end THEN 2
    ELSE IF w.us.state = "WAIT_ECHO_START" /\ w.hw.echo_init_tick > 0 THEN 3
    ELSE IF w.us.state = "WAIT_ECHO_END" /\ w.hw.echo_received THEN 4
    ELSE IF w.us.state = "SET_DISTANCE" /\ ~w.us.status THEN 6
    ELSE IF w.us.state = "SET_DISTANCE" /\ w.hw.trigger_ready THEN 5
    ELSE 0

UltrasoundRow(w) ==
    IF w.us.state = "WAIT_START" /\ w.hw.trigger_ready /\ w.us.status THEN 1
    ELSE IF w.us.state = "TRIGGER_START" /\ w.hw.trigger_end THEN 2
    ELSE IF w.us.state = "WAIT_ECHO_START" /\ w.hw.echo_init_tick > 0 THEN 3
    ELSE IF w.us.state = "WAIT_ECHO_END" /\ w.hw.echo_received THEN 4
    ELSE IF w.us.state = "SET_DISTANCE" /\ w.hw.trigger_ready THEN 5
    ELSE IF w.us.state = "SET_DISTANCE" /\ ~w.us.status THEN 6
    ELSE 0

fsm_ultrasound_fire(w) ==
    CASE UltrasoundRow(w) = 1 -> do_start_measurement([w EXCEPT !.us.state = "TRIGGER_START"])
      [] UltrasoundRow(w) = 2 -> do_stop_trigger([w EXCEPT !.us.state = "WAIT_ECHO_START"])
      [] UltrasoundRow(w) = 3 -> [w EXCEPT !.us.state = "WAIT_ECHO_END"]
      [] UltrasoundRow(w) = 4 -> do_set_distance([w EXCEPT !.us.state = "SET_DISTANCE"])
      [] UltrasoundRow(w) = 5 -> do_start_measurement([w EXCEPT !.us.state = "TRIGGER_START"])
      [] UltrasoundRow(w) = 6 -> do_stop_measurement([w EXCEPT !.us.state = "WAIT_START"])
      [] OTHER -> w

\* Reading the distance clears the new-measurement flag.
fsm_ultrasound_get_distance(w) == [w EXCEPT !.us.new_measurement = FALSE]

\* fsm_ultrasound_stop clearing the distance as fsm_ultrasound_start does.
fsm_ultrasound_stop_clearing_distance(w) ==
    port_ultrasound_stop_ultrasound([w EXCEPT !.us.status = FALSE, !.us.distance_cm = 0])

fsm_ultrasound_stop(w) ==
    port_ultrasound_stop_ultrasound([w EXCEPT !.us.status = FALSE])

\* fsm_ultrasound_start without the reset of the window index.
fsm_ultrasound_start_keeping_idx(w) ==
    port_ultrasound_start_new_measurement_timer(
        port_ultrasound_set_trigger_ready(
            port_ultrasound_reset_echo_ticks(
                [w EXCEPT !.us.status = TRUE, !.us.distance_cm = 0]),
            TRUE))

fsm_ultrasound_start(w) ==
    port_ultrasound_start_new_measurement_timer(
        port_ultrasound_set_trigger_ready(
            port_ultrasound_reset_echo_ticks(
                [w EXCEPT !.us.status = TRUE, !.us.distance_idx = 0, !.us.distance_cm = 0]),
            TRUE))

fsm_ultrasound_check_activity(w) == FALSE

(* ============================== button FSM ============================= *)
\* The raw line: the button pulls it low, so a pressed button reads false.
port_button_get_value(w) == ~w.btn.down

port_button_get_pressed(w) == w.btn.flag_pressed

port_button_set_pressed(w, pressed) == [w EXCEPT !.btn.flag_pressed = pressed]

fsm_button_check_activity(w) == w.btn.state # "RELEASED"

fsm_button_reset_duration(w) == [w EXCEPT !.btn.duration = 0]

\* The four rows of the button FSM (0: none).  since_tick is now - tick_last.
ButtonRow(w) ==
    IF w.btn.state = "RELEASED" /\ port_button_get_pressed(w) THEN 1
    ELSE IF w.btn.state = "PRESSED_WAIT"
            /\ w.btn.since_tick >= PORT_PARKING_BUTTON_DEBOUNCE_TIME_MS THEN 2
    ELSE IF w.btn.state = "PRESSED" /\ port_button_get_value(w) THEN 3
    ELSE IF w.btn.state = "RELEASED_WAIT"
            /\ w.btn.since_tick >= PORT_PARKING_BUTTON_DEBOUNCE_TIME_MS THEN 4
    ELSE 0

fsm_button_fire(w) ==
    CASE ButtonRow(w) = 1 ->
           port_button_set_pressed(
               [w EXCEPT !.btn.state = "PRESSED_WAIT", !.btn.since_tick = 0], FALSE)
      [] ButtonRow(w) = 2 -> [w EXCEPT !.btn.state = "PRESSED"]
      [] ButtonRow(w) = 3 ->
           port_button_set_pressed(
               [w EXCEPT !.btn.state = "RELEASED_WAIT",
                         !.btn.duration = w.btn.since_tick, !.btn.since_tick = 0], FALSE)
      [] ButtonRow(w) = 4 -> [w EXCEPT !.btn.state = "RELEASED", !.btn.since_tick = 0]
      [] OTHER -> w

(* ============================= Urbanite FSM ============================ *)
fsm_button_get_duration(w) == w.btn.duration

fsm_ultrasound_get_new_measurement_ready(w) == w.us.new_measurement

check_on(w) ==
    fsm_button_get_duration(w) > 0
    /\ fsm_button_get_duration(w) > URBANITE_ON_OFF_PRESS_TIME_MS

\* check_off with the lower bound of its window included.
check_off_inclusive(w) ==
    /\ fsm_button_get_duration(w) > 0
    /\ fsm_button_get_duration(w) >= URBANITE_ON_OFF_PRESS_TIME_MS
    /\ fsm_button_get_duration(w) < URBANITE_EMERGENCY_TIME_MS

check_off(w) ==
    fsm_button_get_duration(w) > 0
    /\ fsm_button_get_duration(w) > URBANITE_ON_OFF_PRESS_TIME_MS
    /\ fsm_button_get_duration(w) < URBANITE_EMERGENCY_TIME_MS

\* check_emergency_on compared with the on/off time.
check_emergency_on_above_on_off(w) ==
    /\ fsm_button_get_duration(w) > 0
    /\ fsm_button_get_duration(w) > URBANITE_ON_OFF_PRESS_TIME_MS

check_emergency_on(w) ==
    fsm_button_get_duration(w) > 0
    /\ fsm_button_get_duration(w) > URBANITE_EMERGENCY_TIME_MS

check_emergency_continue(w) == w.urb.emergency

check_emergency_off(w) ==
    fsm_button_get_duration(w) > 0
    /\ fsm_button_get_duration(w) > URBANITE_EMERGENCY_TIME_MS

check_new_measure(w) == fsm_ultrasound_get_new_measurement_ready(w)

check_pause_display(w) ==
    fsm_button_get_duration(w) > 0
    /\ fsm_button_get_duration(w) < URBANITE_ON_OFF_PRESS_TIME_MS
    /\ fsm_button_get_duration(w) >= URBANITE_PAUSE_DISPLAY_TIME_MS

check_activity(w) ==
    fsm_ultrasound_check_activity(w) \/ fsm_display_check_activity(w)
    \/ fsm_button_check_activity(w)

check_no_activity(w) == ~check_activity(w)

\* check_activity_in_measure answering as check_activity does.
check_activity_in_measure_any_leaf(w) == check_activity(w)

check_activity_in_measure(w) == check_new_measure(w)

\* do_start_up_measure without fsm_button_reset_duration.
do_start_up_measure_keeping_duration(w) ==
    fsm_display_set_status(fsm_ultrasound_start(w), TRUE)

do_start_up_measure(w) ==
    fsm_display_set_status(fsm_ultrasound_start(fsm_button_reset_duration(w)), TRUE)

\* do_stop_urbanite leaving is_paused as it is.
do_stop_urbanite_keeping_pause(w) ==
    fsm_display_set_status(fsm_ultrasound_stop(fsm_button_reset_duration(w)), FALSE)

do_stop_urbanite(w) ==
    LET w1 == fsm_display_set_status(fsm_ultrasound_stop(fsm_button_reset_duration(w)), FALSE)
    IN  [w1 EXCEPT !.urb.is_paused = FALSE]

\* do_pause_display without its call of fsm_display_set_status.
do_pause_display_keeping_status(w) ==
    LET w1 == fsm_button_reset_duration(w)
    IN  [w1 EXCEPT !.urb.is_paused = ~w1.urb.is_paused]

do_pause_display(w) ==
    LET w1 == fsm_button_reset_duration(w)
        w2 == [w1 EXCEPT !.urb.is_paused = ~w1.urb.is_paused]
    IN  fsm_display_set_status(w2, ~w2.urb.is_paused)

\* do_display_distance alerting below WARNING_MIN_CM instead of half of it.
do_display_distance_below_warning(w) ==
    LET distance_cm == w.us.distance_cm
        w1 == fsm_ultrasound_get_distance(w)
    IN  IF w1.urb.is_paused
          THEN IF distance_cm < WARNING_MIN_CM
                 THEN fsm_display_set_status(fsm_display_set_distance(w1, distance_cm), TRUE)
                 ELSE fsm_display_set_status(w1, FALSE)
          ELSE fsm_display_set_distance(w1, distance_cm)

do_display_distance(w) ==
    LET distance_cm == w.us.distance_cm
        w1 == fsm_ultrasound_get_distance(w)
    IN  IF w1.urb.is_paused
          THEN IF distance_cm < WARNING_MIN_CM \div 2
                 THEN fsm_display_set_status(fsm_display_set_distance(w1, distance_cm), TRUE)
                 ELSE fsm_display_set_status(w1, FALSE)
          ELSE fsm_display_set_distance(w1, distance_cm)

\* do_start_emergency leaving the ultrasound enabled.
do_start_emergency_keeping_ultrasound(w) ==
    LET w1 == fsm_display_set_status(fsm_button_reset_duration(w), TRUE)
    IN  [w1 EXCEPT !.urb.emergency_aux = TRUE, !.urb.emergency = TRUE]

do_start_emergency(w) ==
    LET w1 == fsm_ultrasound_stop(fsm_display_set_status(fsm_button_reset_duration(w), TRUE))
    IN  [w1 EXCEPT !.urb.emergency_aux = TRUE, !.urb.emergency = TRUE]

\* do_stop_emergency leaving the display as EMERGENCY had it.
do_stop_emergency_keeping_display(w) ==
    LET w1 == fsm_ultrasound_start(fsm_button_reset_duration(w))
    IN  [w1 EXCEPT !.urb.emergency_aux = FALSE, !.urb.emergency = FALSE]

do_stop_emergency(w) ==
    LET w1 == fsm_ultrasound_start(fsm_button_reset_duration(w))
        w2 == IF w1.urb.is_paused THEN fsm_display_set_status(w1, FALSE) ELSE w1
    IN  [w2 EXCEPT !.urb.emergency_aux = FALSE, !.urb.emergency = FALSE]

\* do_continue_emergency up to its call of port_system_delay_ms; the toggle of
\* emergency_aux that follows the wait is the step DelayDone.
\* do_continue_emergency disabling the display in the dark half of the flash.
do_continue_emergency_disabling_display(w) ==
    IF w.urb.emergency_aux
      THEN fsm_display_set_distance(w, 0)
      ELSE fsm_display_set_status(w, FALSE)

do_continue_emergency(w) ==
    IF w.urb.emergency_aux
      THEN fsm_display_set_distance(w, 0)
      ELSE fsm_display_set_distance(w, EMERGENCY_DISTANCE_OFF_CM)

\* fsm_trans_urbanite, in the order of the table (0: no row matches).
UrbaniteRow(w) ==
    IF w.urb.state = "OFF" /\ check_no_activity(w) THEN 1
    ELSE IF w.urb.state = "SLEEP_WHILE_OFF" /\ check_activity(w) THEN 2
    ELSE IF w.urb.state = "SLEEP_WHILE_OFF" /\ check_no_activity(w) THEN 3
    ELSE IF w.urb.state = "OFF" /\ check_on(w) THEN 4
    ELSE IF w.urb.state = "MEASURE" /\ check_pause_display(w) THEN 5
    ELSE IF w.urb.state = "MEASURE" /\ check_new_measure(w) THEN 6
    ELSE IF w.urb.state = "MEASURE" /\ check_no_activity(w) THEN 7
    ELSE IF w.urb.state = "SLEEP_WHILE_ON" /\ check_activity_in_measure(w) THEN 8
    ELSE IF w.urb.state = "SLEEP_WHILE_ON" /\ check_no_activity(w) THEN 9
    ELSE IF w.urb.state = "MEASURE" /\ check_emergency_on(w) THEN 10
    ELSE IF w.urb.state = "EMERGENCY" /\ check_emergency_off(w) THEN 11
    ELSE IF w.urb.state = "EMERGENCY" /\ check_emergency_continue(w) THEN 12
    ELSE IF w.urb.state = "MEASURE" /\ check_off(w) THEN 13
    ELSE 0

SleepRows == {1, 3, 7, 9}

PressRows == {4, 5, 10, 11, 13}

fsm_urbanite_fire(w) ==
    CASE UrbaniteRow(w) = 1 -> [w EXCEPT !.urb.state = "SLEEP_WHILE_OFF"]
      [] UrbaniteRow(w) = 2 -> [w EXCEPT !.urb.state = "OFF"]
      [] UrbaniteRow(w) = 3 -> w
      [] UrbaniteRow(w) = 4 -> do_start_up_measure([w EXCEPT !.urb.state = "MEASURE"])
      [] UrbaniteRow(w) = 5 -> do_pause_display(w)
      [] UrbaniteRow(w) = 6 -> do_display_distance(w)
      [] UrbaniteRow(w) = 7 -> [w EXCEPT !.urb.state = "SLEEP_WHILE_ON"]
      [] UrbaniteRow(w) = 8 -> [w EXCEPT !.urb.state = "MEASURE"]
      [] UrbaniteRow(w) = 9 -> w
      [] UrbaniteRow(w) = 10 -> do_start_emergency([w EXCEPT !.urb.state = "EMERGENCY"])
      [] UrbaniteRow(w) = 11 -> do_stop_emergency([w EXCEPT !.urb.state = "MEASURE"])
      [] UrbaniteRow(w) = 12 -> do_continue_emergency(w)
      [] UrbaniteRow(w) = 13 -> do_stop_urbanite([w EXCEPT !.urb.state = "OFF"])
      [] OTHER -> w

(* ===================== the program after construction ================== *)
InitCpu == [pc |-> "loop", systick_on |-> TRUE, delay_left |-> 0]

InitButton ==
    [state |-> "RELEASED", flag_pressed |-> FALSE, down |-> FALSE,
     since_tick |-> 0, duration |-> 0]

InitUltrasound ==
    [state |-> "WAIT_START", status |-> FALSE, new_measurement |-> FALSE,
     distance_cm |-> 0, distance_idx |-> 0,
     distance_arr |-> [i \in 1..FSM_ULTRASOUND_NUM_MEASUREMENTS |-> 0]]

InitPort ==
    [trigger_ready |-> TRUE, trigger_end |-> FALSE, echo_received |-> FALSE,
     echo_init_tick |-> 0, echo_end_tick |-> 0, echo_overflows |-> 0,
     trigger_pin |-> FALSE, tim2_cen |-> FALSE, tim3_cen |-> FALSE, tim5_cen |-> FALSE,
     echo |-> "idle"]

InitDisplay ==
    [state |-> "WAIT_DISPLAY", status |-> FALSE, idle |-> FALSE, new_color |-> FALSE,
     distance_cm |-> -1, rgb |-> COLOR_OFF]

InitUrbanite ==
    [state |-> "OFF", is_paused |-> FALSE, emergency |-> FALSE, emergency_aux |-> FALSE]

\* presses: presses of the button so far, of the budget the run allows;
\* held: ms the button has been down in the current or the last hold;
\* from: the Urbanite state when that hold began; pending: the hold has ended
\* and no press-guarded row has fired since; uses: press-guarded rows fired
\* since the button FSM last stored a duration; wraps: TIM2 update events
\* between the two echo edges of the measurement under way; edges: echo edges
\* captured in it; raw: the raw distances stored since the last start, window
\* by window; init_read, end_read, ovf_read: what do_set_distance last read
\* from the port; wraps_read: the wraps between the edges it read.
InitObs ==
    [held |-> 0, from |-> "off", pending |-> FALSE, uses |-> 0, presses |-> 0,
     budget |-> MaxPresses,
     wraps |-> 0, edges |-> 0, raw |-> <<>>,
     ovf_read |-> 0, wraps_read |-> 0, init_read |-> 0, end_read |-> 0]

Init ==
    /\ cpu = InitCpu
    /\ btn = InitButton
    /\ us = InitUltrasound
    /\ hw = InitPort
    /\ disp = InitDisplay
    /\ urb = InitUrbanite
    /\ obs = InitObs

Commit(w) ==
    /\ btn' = w.btn
    /\ us' = w.us
    /\ hw' = w.hw
    /\ disp' = w.disp
    /\ urb' = w.urb

\* Where the Urbanite row that fired leaves the CPU: a sleep row on its way
\* into port_system_sleep, do_continue_emergency inside port_system_delay_ms.
AfterUrbaniteRow(row) ==
    IF row \in SleepRows THEN [cpu EXCEPT !.pc = "wfi"]
    ELSE IF row = 12 THEN [cpu EXCEPT !.pc = "delay", !.delay_left = EMERGENCY_DELAY_MS]
    ELSE cpu

(* ============================== main loop ============================== *)
\* One iteration of the loop of main: the button, ultrasound, display and
\* Urbanite FSMs fire in that order.  An interrupt that arrives inside an
\* iteration writes only fields that the button FSM (the edge flag, the line)
\* or the ultrasound FSM (the port record) reads, so it is seen as if it had
\* arrived before the iteration or after it; the one place where its position
\* matters, between the Urbanite guard and WFI, is a position of its own
\* ("wfi").  A sleep row leaves the CPU on its way into port_system_sleep, the
\* continue-emergency row inside port_system_delay_ms.
main ==
    /\ cpu.pc = "loop"
    /\ \E w1 \in {fsm_button_fire(World)} :
       \E w2 \in {fsm_ultrasound_fire(w1)} :
       \E w3 \in {fsm_display_fire(w2)} :
       \E row \in {UrbaniteRow(w3)} :
       \E w4 \in {fsm_urbanite_fire(w3)} :
         /\ Commit(w4)
         /\ cpu' = AfterUrbaniteRow(row)
         /\ obs' = LET n == IF ButtonRow(World) = 3 THEN 0 ELSE obs.uses
                   IN  IF row \in PressRows
                         THEN [obs EXCEPT !.uses = IF n < 2 THEN n + 1 ELSE n,
                                          !.pending = FALSE, !.held = 0, !.from = "off"]
                         ELSE [obs EXCEPT !.uses = n]

\* port_system_sleep: suspend SysTick and halt in WFI until an interrupt.
PortSystemSleep ==
    /\ cpu.pc = "wfi"
    /\ cpu' = [cpu EXCEPT !.pc = "asleep", !.systick_on = FALSE]
    /\ UNCHANGED <<btn, us, hw, disp, urb, obs>>

\* port_system_delay_ms has returned: do_continue_emergency flips the phase.
DelayDone ==
    /\ cpu.pc = "delay"
    /\ cpu.delay_left = 0
    /\ urb' = [urb EXCEPT !.emergency_aux = ~urb.emergency_aux]
    /\ cpu' = [cpu EXCEPT !.pc = "loop"]
    /\ UNCHANGED <<btn, us, hw, disp, obs>>

(* ========================= interrupts and the world ==================== *)
\* Any interrupt ends WFI; the main loop resumes after port_system_sleep.
Wake(c) == IF c.pc = "asleep" THEN [c EXCEPT !.pc = "loop"] ELSE c

port_system_systick_resume(c) == [c EXCEPT !.systick_on = TRUE]

\* Off, on or emergency: what the Urbanite state means to the user.
UrbaniteMode(state) ==
    IF state \in {"OFF", "SLEEP_WHILE_OFF"} THEN "off"
    ELSE IF state = "EMERGENCY" THEN "emergency" ELSE "on"

\* The user presses the button: falling edge, EXTI15_10_IRQHandler.
Press ==
    /\ ~btn.down
    /\ obs.presses < obs.budget
    /\ btn' = [btn EXCEPT !.down = TRUE, !.flag_pressed = TRUE]
    /\ cpu' = Wake(port_system_systick_resume(cpu))
    /\ obs' = [obs EXCEPT !.held = 0, !.from = UrbaniteMode(urb.state), !.pending = FALSE,
                           !.presses = obs.presses + 1]
    /\ UNCHANGED <<us, hw, disp, urb>>

\* The user releases the button: rising edge, EXTI15_10_IRQHandler.
Release ==
    /\ btn.down
    /\ btn' = [btn EXCEPT !.down = FALSE, !.flag_pressed = FALSE]
    /\ cpu' = Wake(port_system_systick_resume(cpu))
    /\ obs' = [obs EXCEPT !.pending = TRUE]
    /\ UNCHANGED <<us, hw, disp, urb>>

TIM3_IRQHandler ==
    /\ hw.tim3_cen
    /\ hw' = [hw EXCEPT !.trigger_end = TRUE]
    /\ cpu' = Wake(cpu)
    /\ UNCHANGED <<btn, us, disp, urb, obs>>

TIM5_IRQHandler ==
    /\ hw.tim5_cen
    /\ hw' = [hw EXCEPT !.trigger_ready = TRUE]
    /\ cpu' = Wake(cpu)
    /\ UNCHANGED <<btn, us, disp, urb, obs>>

\* The capture branch of TIM2_IRQHandler with CCR2 = ccr.
TIM2_Capture(h, ccr) ==
    IF h.echo_init_tick = 0 /\ h.echo_end_tick = 0
      THEN [h EXCEPT !.echo_init_tick = ccr]
      ELSE [h EXCEPT !.echo_end_tick = ccr, !.echo_received = TRUE]

\* The echo line rises; TIM2 captures the edge while it counts.
EchoRise ==
    /\ hw.echo = "armed"
    /\ \E ccr \in RiseTicks :
         /\ hw' = IF hw.tim2_cen THEN [TIM2_Capture(hw, ccr) EXCEPT !.echo = "high"]
                  ELSE [hw EXCEPT !.echo = "high"]
         /\ cpu' = IF hw.tim2_cen THEN Wake(port_system_systick_resume(cpu)) ELSE cpu
    /\ UNCHANGED <<btn, us, disp, urb, obs>>

\* The echo line falls.
EchoFall ==
    /\ hw.echo = "high"
    /\ \E ccr \in FallTicks :
         /\ hw' = IF hw.tim2_cen THEN [TIM2_Capture(hw, ccr) EXCEPT !.echo = "idle"]
                  ELSE [hw EXCEPT !.echo = "idle"]
         /\ cpu' = IF hw.tim2_cen THEN Wake(port_system_systick_resume(cpu)) ELSE cpu
    /\ UNCHANGED <<btn, us, disp, urb, obs>>

\* The sensor does not answer the trigger pulse at all.
SensorMiss ==
    /\ hw.echo = "armed"
    /\ hw' = [hw EXCEPT !.echo = "idle"]
    /\ UNCHANGED <<cpu, btn, us, disp, urb, obs>>

(* ================================= time ================================ *)
\* No state machine has a transition to fire: the main loop only spins.
Quiescent ==
    /\ ButtonRow(World) = 0
    /\ UltrasoundRow(World) = 0
    /\ DisplayRow(World) = 0
    /\ UrbaniteRow(World) = 0

\* MsPerTick ms pass.  SysTick counts them unless port_system_sleep suspended it.
PhysTick ==
    /\ \/ cpu.pc = "asleep"
       \/ cpu.pc = "delay" /\ cpu.delay_left > 0
       \/ cpu.pc = "loop" /\ Quiescent
    /\ btn' = IF cpu.systick_on /\ btn.state # "RELEASED"
                THEN [btn EXCEPT !.since_tick = TickAdd(btn.since_tick)] ELSE btn
    /\ cpu' = IF cpu.systick_on /\ cpu.pc = "delay"
                THEN [cpu EXCEPT !.delay_left =
                          IF cpu.delay_left > MsPerTick THEN cpu.delay_left - MsPerTick ELSE 0]
                ELSE cpu
    /\ obs' = IF btn.down THEN [obs EXCEPT !.held = TickAdd(obs.held)] ELSE obs
    /\ UNCHANGED <<us, hw, disp, urb>>

Next ==
    \/ main
    \/ PortSystemSleep
    \/ DelayDone
    \/ Press
    \/ Release
    \/ TIM3_IRQHandler
    \/ TIM5_IRQHandler
    \/ EchoRise
    \/ EchoFall
    \/ SensorMiss
    \/ PhysTick

Spec == Init /\ [][Next]_vars

(* ====================== the measurement pipeline ======================= *)
\* The ultrasound FSM with its interrupts and its sensor, driven by the calls
\* the Urbanite FSM makes on it, in any order and at any moment.  Here the
\* capture timer overflows and the echo edges latch several counter values.
MaxOverflows == 1

MedianFallTicks == {683, 1849, 11760}

\* do_start_up_measure and do_stop_emergency: fsm_ultrasound_start.
UrbaniteStart ==
    /\ ~us.status
    /\ Commit(fsm_ultrasound_start(World))
    /\ obs' = [obs EXCEPT !.raw = <<>>, !.wraps = 0, !.edges = 0]
    /\ UNCHANGED cpu

\* do_stop_urbanite and do_start_emergency: fsm_ultrasound_stop.
UrbaniteStop ==
    /\ us.status
    /\ Commit(fsm_ultrasound_stop(World))
    /\ obs' = [obs EXCEPT !.wraps = 0, !.edges = 0]
    /\ UNCHANGED cpu

\* do_display_distance: fsm_ultrasound_get_distance.
UrbaniteRead ==
    /\ us.status
    /\ check_new_measure(World)
    /\ Commit(fsm_ultrasound_get_distance(World))
    /\ UNCHANGED <<cpu, obs>>

\* What do_set_distance adds to the observations: the raw distance it stores
\* and what it read from the port, with the wraps that fell between the edges.
ObsSetDistance(w) ==
    LET distance == ComputeDistance(w.hw.echo_init_tick, w.hw.echo_end_tick,
                                    w.hw.echo_overflows)
    IN  [obs EXCEPT !.raw = IF Len(obs.raw) >= FSM_ULTRASOUND_NUM_MEASUREMENTS
                              THEN <<distance>> ELSE Append(obs.raw, distance),
                    !.init_read = w.hw.echo_init_tick,
                    !.end_read = w.hw.echo_end_tick,
                    !.ovf_read = w.hw.echo_overflows,
                    !.wraps_read = obs.wraps,
                    !.wraps = 0, !.edges = 0]

\* fsm_ultrasound_fire, as the main loop calls it.
UltrasoundFire ==
    /\ UltrasoundRow(World) # 0
    /\ Commit(fsm_ultrasound_fire(World))
    /\ obs' = IF UltrasoundRow(World) = 4 THEN ObsSetDistance(World) ELSE obs
    /\ UNCHANGED cpu

\* TIM2_IRQHandler on an update event: the capture counter wraps.
TIM2_Update ==
    /\ hw.tim2_cen
    /\ hw.echo_overflows < MaxOverflows
    /\ hw' = [hw EXCEPT !.echo_overflows = hw.echo_overflows + 1]
    /\ cpu' = Wake(port_system_systick_resume(cpu))
    /\ obs' = IF obs.edges = 1 THEN [obs EXCEPT !.wraps = obs.wraps + 1] ELSE obs
    /\ UNCHANGED <<btn, us, disp, urb>>

\* TIM2_IRQHandler on the rising edge of the echo, the counter at one of ticks.
EchoRiseCapture(ticks) ==
    /\ hw.echo = "armed"
    /\ hw.tim2_cen
    /\ \E ccr \in ticks :
         hw' = [TIM2_Capture(hw, ccr) EXCEPT !.echo = "high"]
    /\ cpu' = Wake(port_system_systick_resume(cpu))
    /\ obs' = [obs EXCEPT !.edges = 1, !.wraps = 0]
    /\ UNCHANGED <<btn, us, disp, urb>>

\* TIM2_IRQHandler on the falling edge.  The counter value latched is below
\* the one of the rising edge only if the counter wrapped in between.
EchoFallCapture(ticks) ==
    /\ hw.echo = "high"
    /\ hw.tim2_cen
    /\ \E ccr \in ticks :
         /\ obs.wraps > 0 \/ ccr >= hw.echo_init_tick
         /\ hw' = [TIM2_Capture(hw, ccr) EXCEPT !.echo = "idle"]
    /\ cpu' = Wake(port_system_systick_resume(cpu))
    /\ obs' = [obs EXCEPT !.edges = 2]
    /\ UNCHANGED <<btn, us, disp, urb>>

\* An edge of the echo while TIM2 is stopped: nothing is captured.
EchoEdgeUnseen ==
    /\ hw.echo \in {"armed", "high"}
    /\ ~hw.tim2_cen
    /\ hw' = [hw EXCEPT !.echo = IF hw.echo = "armed" THEN "high" ELSE "idle"]
    /\ UNCHANGED <<cpu, btn, us, disp, urb, obs>>

\* The pipeline with a sensor that answers at several distances and a capture
\* counter that does not wrap.
NextMedian ==
    \/ UrbaniteStart
    \/ UrbaniteStop
    \/ UrbaniteRead
    \/ UltrasoundFire
    \/ TIM3_IRQHandler
    \/ TIM5_IRQHandler
    \/ EchoRiseCapture(RiseTicks)
    \/ EchoFallCapture(MedianFallTicks)
    \/ EchoEdgeUnseen
    \/ SensorMiss

SpecMedian == Init /\ [][NextMedian]_vars

\* The pipeline with a capture counter that wraps, at any moment while TIM2
\* runs, and a sensor that answers at one distance.
NextOverflow ==
    \/ UrbaniteStart
    \/ UrbaniteStop
    \/ UrbaniteRead
    \/ UltrasoundFire
    \/ TIM3_IRQHandler
    \/ TIM5_IRQHandler
    \/ TIM2_Update
    \/ EchoRiseCapture(RiseTicks)
    \/ EchoFallCapture(FallTicks)
    \/ EchoEdgeUnseen
    \/ SensorMiss

SpecOverflow == Init /\ [][NextOverflow]_vars

\* The pipeline with a rising edge that may latch the counter at zero, and
\* the capture interrupt cutting into the main loop's reset of the ticks.
CaptureRiseTicks == {0, 100}

\* The stores of port_ultrasound_reset_echo_ticks numbered a to b, in the
\* order of the code: echo_received, echo_end_tick, echo_init_tick,
\* echo_overflows.
ResetEchoTicksStores(h, a, b) ==
    LET h1 == IF a <= 1 /\ 1 <= b THEN [h EXCEPT !.echo_received = FALSE] ELSE h
        h2 == IF a <= 2 /\ 2 <= b THEN [h1 EXCEPT !.echo_end_tick = 0] ELSE h1
        h3 == IF a <= 3 /\ 3 <= b THEN [h2 EXCEPT !.echo_init_tick = 0] ELSE h2
    IN  IF a <= 4 /\ 4 <= b THEN [h3 EXCEPT !.echo_overflows = 0] ELSE h3

\* fsm_ultrasound_start while TIM2 counts, as it does when the ultrasound FSM
\* has started a measurement after fsm_ultrasound_stop: an echo edge raises
\* TIM2_IRQHandler between two stores of port_ultrasound_reset_echo_ticks,
\* which runs with the interrupt enabled.
UrbaniteStartPreempted ==
    /\ ~us.status
    /\ hw.tim2_cen
    /\ hw.echo \in {"armed", "high"}
    /\ \E k \in 1..3 :
         \E ccr \in IF hw.echo = "armed" THEN CaptureRiseTicks ELSE FallTicks :
           \E w \in {fsm_ultrasound_start(World)},
              h \in {ResetEchoTicksStores(
                       TIM2_Capture(ResetEchoTicksStores(hw, 1, k), ccr), k + 1, 4)} :
             /\ hw.echo = "high" => obs.wraps > 0 \/ ccr >= hw.echo_init_tick
             /\ hw' = [w.hw EXCEPT !.echo_received = h.echo_received,
                                   !.echo_end_tick = h.echo_end_tick,
                                   !.echo_init_tick = h.echo_init_tick,
                                   !.echo_overflows = h.echo_overflows,
                                   !.echo = IF hw.echo = "armed" THEN "high" ELSE "idle"]
             /\ us' = w.us
    /\ cpu' = Wake(port_system_systick_resume(cpu))
    /\ obs' = [obs EXCEPT !.raw = <<>>, !.wraps = 0,
                          !.edges = IF hw.echo = "armed" THEN 1 ELSE 2]
    /\ UNCHANGED <<btn, disp, urb>>

NextCapture ==
    \/ UrbaniteStart
    \/ UrbaniteStartPreempted
    \/ UrbaniteStop
    \/ UrbaniteRead
    \/ UltrasoundFire
    \/ TIM3_IRQHandler
    \/ TIM5_IRQHandler
    \/ EchoRiseCapture(CaptureRiseTicks)
    \/ EchoFallCapture(FallTicks)
    \/ EchoEdgeUnseen
    \/ SensorMiss

SpecCapture == Init /\ [][NextCapture]_vars

(* ======================= the guards, press by press ===================== *)
\* The Urbanite FSM at the moment the button FSM has stored a press of d ms
\* (the button still in its release debounce), in each state whose rows read
\* the duration; the step is the Urbanite fire that classifies the press.
MaxDuration == 3200

InitWorld ==
    [btn |-> InitButton, us |-> InitUltrasound, hw |-> InitPort,
     disp |-> InitDisplay, urb |-> InitUrbanite]

WorldOn == do_start_up_measure([InitWorld EXCEPT !.urb.state = "MEASURE"])

WorldEmergency == do_start_emergency([WorldOn EXCEPT !.urb.state = "EMERGENCY"])

StoredPress(w, d) == [w EXCEPT !.btn.state = "RELEASED_WAIT", !.btn.duration = d]

InitGuards ==
    \E d \in 0..MaxDuration, mode \in {"off", "on", "paused", "emergency"} :
      \E w \in {StoredPress(CASE mode = "off" -> InitWorld
                               [] mode = "on" -> WorldOn
                               [] mode = "paused" -> [WorldOn EXCEPT !.urb.is_paused = TRUE]
                               [] mode = "emergency" -> WorldEmergency, d)} :
        /\ cpu = InitCpu
        /\ btn = w.btn
        /\ us = w.us
        /\ hw = w.hw
        /\ disp = w.disp
        /\ urb = w.urb
        /\ obs = [InitObs EXCEPT !.held = d, !.from = mode, !.pending = TRUE]

\* fsm_fire on the Urbanite FSM, once, with the stored press.
ClassifyPress ==
    /\ obs.pending
    /\ Commit(fsm_urbanite_fire(World))
    /\ obs' = [obs EXCEPT !.pending = FALSE,
                          !.uses = IF UrbaniteRow(World) \in PressRows THEN 1 ELSE 0]
    /\ cpu' = AfterUrbaniteRow(UrbaniteRow(World))

SpecGuards == InitGuards /\ [][ClassifyPress]_vars


(* =================== the Urbanite and display FSMs ===================== *)
\* The display and Urbanite FSMs, loop iteration by loop iteration, with the
\* button and ultrasound FSMs seen through what their fires leave behind: a
\* press of some duration stored, a window completed with some median.
PressSamples == {250, 999, 1500, 3500}

MedianSamples == {5, 12, 30}

\* Iterations the display FSM needs to render a colour that is pending when
\* it is enabled: one for do_set_on, one for do_set_color.
RenderIterations == 2

\* do_set_distance on a full window: the median stored, new_measurement set.
MedianReady(w, d) == [w EXCEPT !.us.distance_cm = d, !.us.new_measurement = TRUE]

\* last: the distance do_display_distance last read since the ultrasound was
\* started (-1: none); fresh: the one it has read since is_paused last
\* changed or EMERGENCY was left (-1: none); row: the Urbanite row that fired
\* in the last iteration; was_paused: is_paused when EMERGENCY was last
\* entered; since: the iterations completed since a pause press cleared
\* is_paused, up to RenderIterations, with no row taking a press or a sample
\* in them (-1: none to count); rendered: the distance do_set_color rendered
\* in the last iteration (-1: none); flash: the distance it last rendered in
\* an iteration begun in EMERGENCY, in the current or the last stay there
\* (-1: none yet); nflash: how many it rendered so, 0, 1 for an odd number,
\* 2 for an even one.
InitUrbaniteObs ==
    [last |-> -1, fresh |-> -1, row |-> 0, was_paused |-> FALSE, since |-> -1,
     rendered |-> -1, flash |-> -1, nflash |-> 0]

InitLoop ==
    /\ cpu = InitCpu
    /\ btn = InitButton
    /\ us = InitUltrasound
    /\ hw = InitPort
    /\ disp = InitDisplay
    /\ urb = InitUrbanite
    /\ obs = InitUrbaniteObs

\* One iteration of the loop of main.  press: the duration the button FSM
\* stores in it (0: none); down: with none stored, the button FSM is left in
\* PRESSED, the button held, or in RELEASED, where it cannot go from PRESSED
\* without storing a duration; d: the median the ultrasound FSM completes in
\* it (-1: none).  The iteration of do_continue_emergency ends when
\* port_system_delay_ms has returned and emergency_aux is flipped.
UrbaniteLoop ==
    \E press \in PressSamples \cup {0}, down \in BOOLEAN, d \in MedianSamples \cup {-1} :
      \E w1 \in {IF press > 0 THEN StoredPress(World, press)
                 ELSE [World EXCEPT !.btn.state = IF down THEN "PRESSED" ELSE "RELEASED"]} :
      \E w2 \in {IF d >= 0 /\ w1.us.status THEN MedianReady(w1, d) ELSE w1} :
      \E w3 \in {fsm_display_fire(w2)} :
      \E row \in {UrbaniteRow(w3)} :
      \E w4 \in {fsm_urbanite_fire(w3)} :
        /\ press = 0 /\ btn.state = "PRESSED" => down
        /\ Commit(IF row = 12 THEN [w4 EXCEPT !.urb.emergency_aux = ~w4.urb.emergency_aux]
                  ELSE w4)
        /\ obs' = [obs EXCEPT
                     !.row = row,
                     !.last = IF row = 6 THEN w3.us.distance_cm
                              ELSE IF row \in {4, 11} THEN -1 ELSE obs.last,
                     !.fresh = IF row = 6 THEN w3.us.distance_cm
                               ELSE IF row \in {4, 5, 10, 11, 13} THEN -1 ELSE obs.fresh,
                     !.was_paused = IF row = 10 THEN w3.urb.is_paused ELSE obs.was_paused,
                     !.rendered = IF DisplayRow(w2) = 2 THEN w2.disp.distance_cm ELSE -1,
                     !.flash = IF row = 10 THEN -1
                               ELSE IF urb.state = "EMERGENCY" /\ DisplayRow(w2) = 2
                                 THEN w2.disp.distance_cm
                               ELSE obs.flash,
                     !.nflash = IF row = 10 THEN 0
                                ELSE IF urb.state = "EMERGENCY" /\ DisplayRow(w2) = 2
                                  THEN (IF obs.nflash = 1 THEN 2 ELSE 1)
                                ELSE obs.nflash,
                     !.since = IF row = 5 /\ w3.urb.is_paused THEN 0
                               ELSE IF row \in {4, 5, 6, 10, 11, 13} \/ obs.since < 0 THEN -1
                               ELSE IF obs.since < RenderIterations THEN obs.since + 1
                               ELSE obs.since]
        /\ UNCHANGED cpu

SpecUrbanite == InitLoop /\ [][UrbaniteLoop]_vars

(* ===================== the distance, capture by capture ================= *)
\* The ultrasound FSM in WAIT_ECHO_END with both edges captured: the counter
\* values of the two edges and the overflow counter, equal to the wraps between
\* the edges, drawn from values around the corners of their ranges.
InitTickSamples == {0, 1, 100, 60000, 65535}

EndTickSamples == {0, 1, 1091, 65535}

OverflowSamples == {0, 1, 2, 65535, 65536, 65537}

InitDistance ==
    \E i \in InitTickSamples, e \in EndTickSamples, o \in OverflowSamples :
      /\ e < i => o >= 1
      /\ cpu = InitCpu
      /\ btn = InitButton
      /\ us = [InitUltrasound EXCEPT !.status = TRUE, !.state = "WAIT_ECHO_END"]
      /\ hw = [InitPort EXCEPT !.trigger_ready = FALSE, !.tim2_cen = TRUE, !.tim5_cen = TRUE,
                               !.echo_init_tick = i, !.echo_end_tick = e,
                               !.echo_overflows = o, !.echo_received = TRUE]
      /\ disp = InitDisplay
      /\ urb = [InitUrbanite EXCEPT !.state = "MEASURE"]
      /\ obs = [InitObs EXCEPT !.edges = 2, !.wraps = o]

SpecDistance == InitDistance /\ [][UltrasoundFire]_vars

(* ======================= the colour of a distance ====================== *)
\* The display FSM in SET_DISPLAY with a distance of -1..500 cm waiting to be
\* shown, and _interpolate_color applied to endpoint colours other than those
\* of the table with the parameter _compute_display_levels computes.
ColourSamples ==
    {COLOR_OFF, COLOR_RED, COLOR_YELLOW, COLOR_GREEN, COLOR_TURQUOISE, COLOR_BLUE,
     <<1, 128, 254>>, <<200, 17, 99>>}

DistanceSamples == -1 .. 500

\* The bounds of the interpolated range _compute_display_levels selects for d
\* (<<>>: solid blue or off).
InterpolatedRange(d) ==
    IF d >= DANGER_MIN_CM /\ d <= WARNING_MIN_CM THEN <<DANGER_MIN_CM, WARNING_MIN_CM>>
    ELSE IF d > WARNING_MIN_CM /\ d <= NO_PROBLEM_MIN_CM THEN <<WARNING_MIN_CM, NO_PROBLEM_MIN_CM>>
    ELSE IF d > NO_PROBLEM_MIN_CM /\ d <= INFO_MIN_CM THEN <<NO_PROBLEM_MIN_CM, INFO_MIN_CM>>
    ELSE IF d > INFO_MIN_CM /\ d <= OK_MIN_CM THEN <<INFO_MIN_CM, OK_MIN_CM>>
    ELSE <<>>

InitColourObs == [mixed |-> FALSE, c1 |-> COLOR_OFF, c2 |-> COLOR_OFF, t |-> 0, mix |-> COLOR_OFF]

InitColour ==
    \E d \in DistanceSamples :
      /\ cpu = InitCpu
      /\ btn = InitButton
      /\ us = [InitUltrasound EXCEPT !.status = TRUE]
      /\ hw = InitPort
      /\ disp = [InitDisplay EXCEPT !.state = "SET_DISPLAY", !.status = TRUE,
                                    !.new_color = TRUE, !.distance_cm = d]
      /\ urb = [InitUrbanite EXCEPT !.state = "MEASURE"]
      /\ obs = InitColourObs

DisplayFire ==
    /\ DisplayRow(World) # 0
    /\ Commit(fsm_display_fire(World))
    /\ UNCHANGED <<cpu, obs>>

Interpolate ==
    \E c1 \in ColourSamples, c2 \in ColourSamples :
      \E r \in {InterpolatedRange(disp.distance_cm)} :
        /\ r # <<>>
        /\ \E t \in {InterpolationT(disp.distance_cm, r[1], r[2])} :
             obs' = [mixed |-> TRUE, c1 |-> c1, c2 |-> c2, t |-> t,
                     mix |-> _interpolate_color(c1, c2, t)]
        /\ UNCHANGED <<cpu, btn, us, hw, disp, urb>>

NextColour == DisplayFire \/ Interpolate

SpecColour == InitColour /\ [][NextColour]_vars

(* ========================= the transition tables ======================= *)
\* The three transition tables, row by row: origin state, guard, destination.
UrbaniteTable ==
    << <<"OFF", "check_no_activity", "SLEEP_WHILE_OFF">>,
       <<"SLEEP_WHILE_OFF", "check_activity", "OFF">>,
       <<"SLEEP_WHILE_OFF", "check_no_activity", "SLEEP_WHILE_OFF">>,
       <<"OFF", "check_on", "MEASURE">>,
       <<"MEASURE", "check_pause_display", "MEASURE">>,
       <<"MEASURE", "check_new_measure", "MEASURE">>,
       <<"MEASURE", "check_no_activity", "SLEEP_WHILE_ON">>,
       <<"SLEEP_WHILE_ON", "check_activity_in_measure", "MEASURE">>,
       <<"SLEEP_WHILE_ON", "check_no_activity", "SLEEP_WHILE_ON">>,
       <<"MEASURE", "check_emergency_on", "EMERGENCY">>,
       <<"EMERGENCY", "check_emergency_off", "MEASURE">>,
       <<"EMERGENCY", "check_emergency_continue", "EMERGENCY">>,
       <<"MEASURE", "check_off", "OFF">> >>

UltrasoundTable ==
    << <<"WAIT_START", "check_on", "TRIGGER_START">>,
       <<"TRIGGER_START", "check_trigger_end", "WAIT_ECHO_START">>,
       <<"WAIT_ECHO_START", "check_echo_init", "WAIT_ECHO_END">>,
       <<"WAIT_ECHO_END", "check_echo_received", "SET_DISTANCE">>,
       <<"SET_DISTANCE", "check_new_measurement", "TRIGGER_START">>,
       <<"SET_DISTANCE", "check_off", "WAIT_START">> >>

DisplayTable ==
    << <<"WAIT_DISPLAY", "check_active", "SET_DISPLAY">>,
       <<"SET_DISPLAY", "check_set_new_color", "SET_DISPLAY">>,
       <<"SET_DISPLAY", "check_off", "WAIT_DISPLAY">> >>

\* The value every guard of a table returns in w.
UrbaniteGuards(w) ==
    [check_on |-> check_on(w), check_off |-> check_off(w),
     check_emergency_on |-> check_emergency_on(w),
     check_emergency_continue |-> check_emergency_continue(w),
     check_emergency_off |-> check_emergency_off(w),
     check_new_measure |-> check_new_measure(w),
     check_pause_display |-> check_pause_display(w),
     check_activity |-> check_activity(w),
     check_no_activity |-> check_no_activity(w),
     check_activity_in_measure |-> check_activity_in_measure(w)]

UltrasoundGuards(w) ==
    [check_on |-> w.hw.trigger_ready /\ w.us.status,
     check_off |-> ~w.us.status,
     check_trigger_end |-> w.hw.trigger_end,
     check_echo_init |-> w.hw.echo_init_tick > 0,
     check_echo_received |-> w.hw.echo_received,
     check_new_measurement |-> w.hw.trigger_ready]

DisplayGuards(w) ==
    [check_active |-> w.disp.status,
     check_set_new_color |-> w.disp.new_color,
     check_off |-> ~w.disp.status]

\* fsm_fire: the first row of the table whose origin is the current state and
\* whose guard holds (0: none).
FirstRow(table, state, guards) ==
    LET hits == {i \in 1..Len(table) : table[i][1] = state /\ guards[table[i][2]]}
    IN  IF hits = {} THEN 0 ELSE CHOOSE i \in hits : \A j \in hits : i <= j

MaxEvaluations == 2

\* The system off, asleep, measuring (the display waiting or showing 10 cm),
\* paused or in emergency.
TableWorld(mode, shown) ==
    LET on == IF shown
                THEN fsm_display_fire(fsm_display_set_distance(fsm_display_fire(WorldOn), 10))
                ELSE WorldOn
    IN  CASE mode = "off" -> InitWorld
          [] mode = "sleep_off" -> [InitWorld EXCEPT !.urb.state = "SLEEP_WHILE_OFF"]
          [] mode = "on" -> on
          [] mode = "sleep_on" -> [on EXCEPT !.urb.state = "SLEEP_WHILE_ON"]
          [] mode = "paused" -> do_pause_display(on)
          [] mode = "emergency" -> do_start_emergency([on EXCEPT !.urb.state = "EMERGENCY"])

\* The ultrasound FSM in state s, enabled or not, the cycle timer expired or
\* not, and the event state s waits for arrived or not.
UltrasoundAt(w, s, status, ready, event) ==
    [w EXCEPT !.us.state = s, !.us.status = status, !.hw.trigger_ready = ready,
              !.hw.trigger_end = (s = "TRIGGER_START" /\ event),
              !.hw.echo_init_tick = IF s = "WAIT_ECHO_END" \/ (s = "WAIT_ECHO_START" /\ event)
                                      THEN 100 ELSE 0,
              !.hw.echo_end_tick = IF s = "WAIT_ECHO_END" /\ event THEN 683 ELSE 0,
              !.hw.echo_received = (s = "WAIT_ECHO_END" /\ event)]

InitTablesObs ==
    [evaluations |-> 0, fired |-> "none",
     urbanite |-> [g \in DOMAIN UrbaniteGuards(InitWorld) |-> FALSE],
     ultrasound |-> [g \in DOMAIN UltrasoundGuards(InitWorld) |-> FALSE],
     display |-> [g \in DOMAIN DisplayGuards(InitWorld) |-> FALSE]]

InitTables ==
    \E mode \in {"off", "sleep_off", "on", "sleep_on", "paused", "emergency"},
       shown \in BOOLEAN, d \in {0} \cup PressSamples, measured \in BOOLEAN,
       s \in {"WAIT_START", "TRIGGER_START", "WAIT_ECHO_START", "WAIT_ECHO_END", "SET_DISTANCE"},
       ready \in BOOLEAN, event \in BOOLEAN :
      \E w0 \in {TableWorld(mode, shown)} :
        \E w \in {UltrasoundAt([w0 EXCEPT !.btn.duration = d, !.us.new_measurement = measured],
                               s, w0.us.status, ready, event)} :
          /\ cpu = InitCpu
          /\ btn = w.btn
          /\ us = w.us
          /\ hw = w.hw
          /\ disp = w.disp
          /\ urb = w.urb
          /\ obs = InitTablesObs

\* Every guard of the three tables evaluated once more: the guards call the
\* getters of the FSMs and of the port and store nothing.
EvaluateGuards ==
    /\ obs.fired = "none"
    /\ obs.evaluations < MaxEvaluations
    /\ obs' = [obs EXCEPT !.evaluations = @ + 1,
                          !.urbanite = UrbaniteGuards(World),
                          !.ultrasound = UltrasoundGuards(World),
                          !.display = DisplayGuards(World)]
    /\ UNCHANGED <<cpu, btn, us, hw, disp, urb>>

\* One fire of one of the three FSMs after the guards were evaluated.
FireUrbaniteTable ==
    /\ obs.fired = "none" /\ obs.evaluations > 0
    /\ Commit(fsm_urbanite_fire(World))
    /\ cpu' = AfterUrbaniteRow(UrbaniteRow(World))
    /\ obs' = [obs EXCEPT !.fired = "urbanite"]

FireUltrasoundTable ==
    /\ obs.fired = "none" /\ obs.evaluations > 0
    /\ Commit(fsm_ultrasound_fire(World))
    /\ obs' = [obs EXCEPT !.fired = "ultrasound"]
    /\ UNCHANGED cpu

FireDisplayTable ==
    /\ obs.fired = "none" /\ obs.evaluations > 0
    /\ Commit(fsm_display_fire(World))
    /\ obs' = [obs EXCEPT !.fired = "display"]
    /\ UNCHANGED cpu

NextTables == EvaluateGuards \/ FireUrbaniteTable \/ FireUltrasoundTable \/ FireDisplayTable

SpecTables == InitTables /\ [][NextTables]_vars

(* ========================= one press of the button ===================== *)
\* The button FSM alone, polled by a main loop that is never late: the button
\* goes down once, stays down for a multiple of ButtonStepMs up to MaxHoldMs and
\* goes up; obs.raw is the time between the two edges.
ButtonStepMs == 50

MaxHoldMs == 1000

InitPressObs == [pressed |-> FALSE, released |-> FALSE, raw |-> 0]

InitPress ==
    /\ cpu = InitCpu
    /\ btn = InitButton
    /\ us = InitUltrasound
    /\ hw = InitPort
    /\ disp = InitDisplay
    /\ urb = InitUrbanite
    /\ obs = InitPressObs

\* EXTI15_10_IRQHandler on the falling edge of the line.
PressEdge ==
    /\ ~obs.pressed /\ ~btn.down
    /\ btn' = [btn EXCEPT !.down = TRUE, !.flag_pressed = TRUE]
    /\ obs' = [obs EXCEPT !.pressed = TRUE]
    /\ UNCHANGED <<cpu, us, hw, disp, urb>>

\* EXTI15_10_IRQHandler on the rising edge of the line.
ReleaseEdge ==
    /\ btn.down
    /\ btn' = [btn EXCEPT !.down = FALSE, !.flag_pressed = FALSE]
    /\ obs' = [obs EXCEPT !.released = TRUE]
    /\ UNCHANGED <<cpu, us, hw, disp, urb>>

ButtonFire ==
    /\ ButtonRow(World) # 0
    /\ Commit(fsm_button_fire(World))
    /\ UNCHANGED <<cpu, obs>>

\* ButtonStepMs ms pass once the button FSM has nothing more to do.
ButtonTime ==
    /\ ButtonRow(World) = 0
    /\ btn.state # "RELEASED"
    /\ btn.down => obs.raw < MaxHoldMs
    /\ btn' = [btn EXCEPT !.since_tick = @ + ButtonStepMs]
    /\ obs' = IF btn.down THEN [obs EXCEPT !.raw = @ + ButtonStepMs] ELSE obs
    /\ UNCHANGED <<cpu, us, hw, disp, urb>>

NextPress == PressEdge \/ ReleaseEdge \/ ButtonFire \/ ButtonTime

SpecPress == InitPress /\ [][NextPress]_vars

(* ==================== the ports initialised with an id ================= *)
\* ultrasounds_arr, displays_arr and buttons_arr have one record each, at
\* index 0.  The _get functions return the index of the record, or NULL.
NULL == -1

_stm32f4_ultrasound_get(ultrasound_id) == IF ultrasound_id < 1 THEN ultrasound_id ELSE NULL

_stm32f4_display_get(display_id) == IF display_id < 1 THEN display_id ELSE NULL

_stm32f4_button_get(button_id) == IF button_id < 1 THEN button_id ELSE NULL

PortIds == {0, 1, 7}

\* What a member access through a null pointer can do on the target: the bus
\* faults and the program stops, or the access lands at address 0 and the
\* program goes on.
NullAccessOutcomes == {"fault", "stray"}

\* Static storage before any init function ran.
ZeroPort == [InitPort EXCEPT !.trigger_ready = FALSE]

InitPortsObs ==
    [ultrasound_id |-> 0, display_id |-> 0, button_id |-> 0, halted |-> FALSE,
     done |-> [p \in {"ultrasound", "display", "button"} |-> FALSE],
     outcome |-> [p \in {"ultrasound", "display", "button"} |-> "none"],
     deref |-> [p \in {"ultrasound", "display", "button"} |-> FALSE]]

InitPorts ==
    \E ui \in PortIds, di \in PortIds, bi \in PortIds :
      /\ cpu = InitCpu
      /\ btn = InitButton
      /\ us = InitUltrasound
      /\ hw = ZeroPort
      /\ disp = [InitDisplay EXCEPT !.rgb = <<-1, -1, -1>>]
      /\ urb = InitUrbanite
      /\ obs = [InitPortsObs EXCEPT !.ultrasound_id = ui, !.display_id = di, !.button_id = bi]

Ran(p, outcome, deref) ==
    [obs EXCEPT !.done[p] = TRUE, !.outcome[p] = outcome, !.deref[p] = deref,
                !.halted = (outcome = "fault")]

\* port_ultrasound_init(obs.ultrasound_id): the members are stored through the
\* pointer _stm32f4_ultrasound_get returns, which is not tested.
PortUltrasoundInit ==
    /\ ~obs.halted /\ ~obs.done["ultrasound"]
    /\ IF _stm32f4_ultrasound_get(obs.ultrasound_id) # NULL
         THEN /\ hw' = InitPort
              /\ obs' = Ran("ultrasound", "initialised", TRUE)
         ELSE /\ hw' = hw
              /\ \E o \in NullAccessOutcomes : obs' = Ran("ultrasound", o, TRUE)
    /\ UNCHANGED <<cpu, btn, us, disp, urb>>

\* port_display_init(obs.display_id): returns at once on a null pointer.
PortDisplayInit ==
    /\ ~obs.halted /\ ~obs.done["display"]
    /\ IF _stm32f4_display_get(obs.display_id) # NULL
         THEN /\ disp' = [disp EXCEPT !.rgb = COLOR_OFF]
              /\ obs' = Ran("display", "initialised", TRUE)
         ELSE /\ disp' = disp
              /\ obs' = Ran("display", "rejected", FALSE)
    /\ UNCHANGED <<cpu, btn, us, hw, urb>>

\* port_button_init(obs.button_id): the port and the pin are read through the
\* pointer _stm32f4_button_get returns, which is not tested.
PortButtonInit ==
    /\ ~obs.halted /\ ~obs.done["button"]
    /\ IF _stm32f4_button_get(obs.button_id) # NULL
         THEN obs' = Ran("button", "initialised", TRUE)
         ELSE \E o \in NullAccessOutcomes : obs' = Ran("button", o, TRUE)
    /\ UNCHANGED <<cpu, btn, us, hw, disp, urb>>

NextPorts == PortUltrasoundInit \/ PortDisplayInit \/ PortButtonInit

SpecPorts == InitPorts /\ [][NextPorts]_vars

\* The scheduling the hardware guarantees: the main loop runs, WFI is
\* reached, the busy wait ends, time passes, a running timer raises its
\* interrupt, and an echo line that has risen falls or one that is awaited
\* rises unless the sensor misses the pulse.  Nothing obliges the user to
\* touch the button.
Fairness ==
    /\ WF_vars(main)
    /\ WF_vars(PortSystemSleep)
    /\ WF_vars(DelayDone)
    /\ WF_vars(PhysTick)
    /\ WF_vars(TIM3_IRQHandler)
    /\ WF_vars(TIM5_IRQHandler)
    /\ WF_vars(EchoRise)
    /\ WF_vars(EchoFall)

\* Runs of one press fewer, short enough for the liveness checks.
InitFair ==
    /\ cpu = InitCpu
    /\ btn = InitButton
    /\ us = InitUltrasound
    /\ hw = InitPort
    /\ disp = InitDisplay
    /\ urb = InitUrbanite
    /\ obs = [InitObs EXCEPT !.budget = MaxPresses - 1]

SpecFair == InitFair /\ [][Next]_vars /\ Fairness

\* The system in EMERGENCY at the end of a dwell, as the run "hold 1500 ms, five
\* echoes at 10 cm, hold 3500 ms, three dwells" of Spec leaves it, with one
\* press of the budget left.
InitEmergency ==
    /\ cpu = InitCpu
    /\ btn = InitButton
    /\ us = [InitUltrasound EXCEPT !.distance_cm = 10,
                                   !.distance_arr = [i \in 1..FSM_ULTRASOUND_NUM_MEASUREMENTS |-> 10]]
    /\ hw = [InitPort EXCEPT !.trigger_ready = FALSE]
    /\ disp = [state |-> "SET_DISPLAY", status |-> TRUE, idle |-> TRUE, new_color |-> TRUE,
               distance_cm |-> 0, rgb |-> COLOR_OFF]
    /\ urb = [state |-> "EMERGENCY", is_paused |-> FALSE, emergency |-> TRUE,
              emergency_aux |-> FALSE]
    /\ obs = [InitObs EXCEPT !.presses = MaxPresses - 1, !.uses = 1]

SpecEmergency == InitEmergency /\ [][Next]_vars /\ Fairness

\* The system just stopped by a press of d ms (1500: powered off, 3500: in
\* emergency) that found the ultrasound FSM in state s of a measurement, after
\* the main-loop iterations and the interrupts that lead there from power-on;
\* one press of the budget is left.
InitRestart ==
    LET w1 == fsm_display_fire(fsm_ultrasound_fire(WorldOn))
        w2 == fsm_ultrasound_fire([w1 EXCEPT !.hw.trigger_end = TRUE])
        w3 == fsm_ultrasound_fire([w2 EXCEPT !.hw = [TIM2_Capture(w2.hw, 100) EXCEPT !.echo = "high"]])
        MeasuringAt(s) == CASE s = "WAIT_START" -> WorldOn
                            [] s = "TRIGGER_START" -> w1
                            [] s = "WAIT_ECHO_START" -> w2
                            [] s = "WAIT_ECHO_END" -> w3
    IN  \E s \in {"WAIT_START", "TRIGGER_START", "WAIT_ECHO_START", "WAIT_ECHO_END"},
           d \in {1500, 3500} :
          \E w \in {fsm_urbanite_fire(StoredPress(MeasuringAt(s), d))} :
            /\ cpu = InitCpu
            /\ btn = w.btn
            /\ us = w.us
            /\ hw = w.hw
            /\ disp = w.disp
            /\ urb = w.urb
            /\ obs = [InitObs EXCEPT !.presses = MaxPresses - 1, !.uses = 1]

\* The sensor answers every trigger pulse: no SensorMiss.
NextAnswered ==
    \/ main
    \/ PortSystemSleep
    \/ DelayDone
    \/ Press
    \/ Release
    \/ TIM3_IRQHandler
    \/ TIM5_IRQHandler
    \/ EchoRise
    \/ EchoFall
    \/ PhysTick

SpecRestart == InitRestart /\ [][NextAnswered]_vars /\ Fairness

(* ================================ claims ================================ *)
UltrasoundStopped == ~hw.tim2_cen /\ ~hw.tim3_cen /\ ~hw.tim5_cen /\ ~hw.trigger_pin

\* C1 (power-on): the first hold of the button, begun with the system off,
\* physically lasting more than on_off_ms and less than emergency_ms and then
\* released, leads to Urbanite in MEASURE with the ultrasound and the display
\* enabled, wherever the button interrupt falls in the main loop.
C1_PowerOn ==
    (/\ obs.pending
     /\ obs.presses = 1
     /\ obs.from = "off"
     /\ obs.held > URBANITE_ON_OFF_PRESS_TIME_MS
     /\ obs.held < URBANITE_EMERGENCY_TIME_MS)
    ~> (urb.state = "MEASURE" /\ us.status /\ disp.status)

\* C2 (power-off): a stored press duration d inside the on/off window while
\* Urbanite is in MEASURE or SLEEP_WHILE_ON and the button is up leads to the
\* system off: ultrasound disabled and stopped, display disabled and dark,
\* duration 0.  Stated for on_off_ms < d < emergency_ms, the durations
\* check_off accepts (C5), so that the edge d = on_off_ms is not what decides.
C2_PowerOff ==
    (/\ urb.state \in {"MEASURE", "SLEEP_WHILE_ON"}
     /\ ~btn.down
     /\ btn.duration > URBANITE_ON_OFF_PRESS_TIME_MS
     /\ btn.duration < URBANITE_EMERGENCY_TIME_MS)
    ~> (/\ UrbaniteMode(urb.state) = "off"
        /\ ~us.status /\ UltrasoundStopped
        /\ ~disp.status /\ disp.rgb = COLOR_OFF
        /\ btn.duration = 0)

\* C3 (emergency entry): a stored press duration of emergency length while
\* Urbanite is in MEASURE or SLEEP_WHILE_ON, paused or not, leads to EMERGENCY
\* with the ultrasound stopped, the display enabled, emergency set and the
\* duration 0.  Stated for d > emergency_ms, the durations check_emergency_on
\* accepts (C5), so that the edge d = emergency_ms is not what decides.
C3_EmergencyEntry ==
    (/\ urb.state \in {"MEASURE", "SLEEP_WHILE_ON"}
     /\ ~btn.down
     /\ btn.duration > URBANITE_EMERGENCY_TIME_MS)
    ~> (/\ urb.state = "EMERGENCY"
        /\ ~us.status /\ UltrasoundStopped
        /\ disp.status /\ urb.emergency
        /\ btn.duration = 0)

\* C4 (emergency exit): a hold of the button begun in EMERGENCY, physically
\* lasting longer than emergency_ms (the spec's 3200 ms) and then released,
\* leads back to MEASURE with the ultrasound enabled, emergency and
\* emergency_aux cleared and duration 0.
C4_EmergencyExit ==
    (/\ obs.pending
     /\ obs.from = "emergency"
     /\ obs.held > URBANITE_EMERGENCY_TIME_MS)
    ~> (/\ urb.state = "MEASURE"
        /\ us.status
        /\ ~urb.emergency /\ ~urb.emergency_aux
        /\ btn.duration = 0)

\* C6 (one press, one transition): between two durations stored by the
\* button FSM, at most one Urbanite row guarded by the duration fires.
C6_OnePressOneTransition == obs.uses <= 1

\* A stored press has been used by one press-guarded row, more than once in the run.
C6_Witness == obs.uses = 1 /\ obs.presses >= 2 /\ btn.duration = 0 /\ urb.state = "OFF"

\* The k-th smallest element of a sequence, counted with repetitions.
KthSmallest(s, k) ==
    CHOOSE m \in {s[i] : i \in DOMAIN s} :
        /\ Cardinality({i \in DOMAIN s : s[i] < m}) < k
        /\ Cardinality({i \in DOMAIN s : s[i] <= m}) >= k

\* The median of a sequence: the middle element of its ordering, or the
\* integer mean of the two middle ones.
MedianOf(s) ==
    IF Len(s) % 2 = 0
      THEN (KthSmallest(s, Len(s) \div 2) + KthSmallest(s, Len(s) \div 2 + 1)) \div 2
      ELSE KthSmallest(s, Len(s) \div 2 + 1)

\* C7: once the N-th raw distance counted from the last start() is stored,
\* and for every later complete window, the distance the FSM reports is the
\* median of exactly the N raw distances of that window.
C7_MedianOfWindow ==
    Len(obs.raw) = FSM_ULTRASOUND_NUM_MEASUREMENTS => us.distance_cm = MedianOf(obs.raw)

\* C7: a complete window filled out of order, its median ready to be read.
C7_Witness ==
    /\ obs.raw = <<30, 10, 200, 10, 30>>
    /\ us.distance_cm = 30
    /\ us.new_measurement
    /\ us.distance_arr = <<10, 10, 30, 30, 200>>

\* The windows of the press durations, each with its lower bound excluded
\* except the pause window's.
InPauseWindow(d) == d >= URBANITE_PAUSE_DISPLAY_TIME_MS /\ d < URBANITE_ON_OFF_PRESS_TIME_MS

InOffWindow(d) == d > URBANITE_ON_OFF_PRESS_TIME_MS /\ d < URBANITE_EMERGENCY_TIME_MS

InEmergencyWindow(d) == d > URBANITE_EMERGENCY_TIME_MS

ElapsedHi(init_tick, end_tick, wraps) == IF end_tick < init_tick THEN wraps - 1 ELSE wraps

ElapsedLo(init_tick, end_tick) ==
    IF end_tick < init_tick THEN TIM2_PERIOD - init_tick + end_tick ELSE end_tick - init_tick

\* C8, as amended: for every init_tick and end_tick and every overflow count
\* equal to the wraps between the two edges, as long as the elapsed
\* microseconds E = wraps*65536 + end_tick - init_tick fit in 32 bits,
\* do_set_distance stores floor(E*10/583), wrapped counter or not.
C8_DistanceBelow2to32 ==
    (Len(obs.raw) = 1 /\ ElapsedHi(obs.init_read, obs.end_read, obs.wraps_read) < TIM2_PERIOD) =>
        /\ obs.raw[1] = Distance10(ElapsedHi(obs.init_read, obs.end_read, obs.wraps_read),
                                   ElapsedLo(obs.init_read, obs.end_read))
        /\ us.distance_arr[1] = obs.raw[1]

\* C8: a capture across one wrap of the counter (60000 to 1091, 6627 us)
\* stored as 113 cm.
C8_Witness ==
    /\ obs.init_read = 60000
    /\ obs.end_read = 1091
    /\ obs.wraps_read = 1
    /\ obs.ovf_read = 1
    /\ obs.raw = <<113>>
    /\ us.distance_arr[1] = 113
    /\ us.state = "SET_DISTANCE"

\* C8, as stated: the stored distance is floor(E*10/583) for every overflow
\* count equal to the wraps between the edges.
C8_DistanceAnyOverflow ==
    Len(obs.raw) = 1 =>
        obs.raw[1] = Distance10(ElapsedHi(obs.init_read, obs.end_read, obs.wraps_read),
                                ElapsedLo(obs.init_read, obs.end_read))

\* C9: while the ultrasound is enabled, a measurement waiting for an edge of
\* its echo is followed by a fresh trigger (or by the ultrasound being
\* stopped): the FSM never stays in a waiting state forever.
C9_NoStuckMeasurement ==
    (us.status /\ us.state \in {"WAIT_ECHO_START", "WAIT_ECHO_END"})
        ~> (~us.status \/ us.state = "TRIGGER_START")

\* C10: the overflow count do_set_distance reads is the number of update
\* events of the capture timer between the rising-edge capture and the
\* falling-edge capture of the measurement it computes.
C10_OverflowsAreWraps == obs.ovf_read = obs.wraps_read


\* C11: the capture sequence.  echo_end_tick and echo_received are written
\* only after echo_init_tick has been recorded, echo_received together with
\* echo_end_tick; so in every state, under any interleaving of the capture
\* interrupt with reset_echo_ticks, stop and start, echo_received implies a
\* recorded (non-zero) echo_init_tick, and so does a recorded echo_end_tick.
C11_CaptureSequence ==
    /\ hw.echo_received => hw.echo_init_tick # 0
    /\ hw.echo_end_tick # 0 => hw.echo_init_tick # 0 /\ hw.echo_received

\* C12: the single-writer discipline.  Each hardware-mirror field (the
\* button's pressed flag, trigger_end, trigger_ready, echo_init_tick,
\* echo_end_tick, echo_overflows, echo_received) changes only in a step of
\* its interrupt handler; no step of the main loop writes it.
C12_SingleWriter ==
    [][/\ btn'.flag_pressed # btn.flag_pressed => Press \/ Release
       /\ hw'.trigger_end # hw.trigger_end => TIM3_IRQHandler
       /\ hw'.trigger_ready # hw.trigger_ready => TIM5_IRQHandler
       /\ \/ hw'.echo_init_tick # hw.echo_init_tick
          \/ hw'.echo_end_tick # hw.echo_end_tick
          \/ hw'.echo_overflows # hw.echo_overflows
          \/ hw'.echo_received # hw.echo_received
          => \/ EchoRise \/ EchoFall \/ TIM2_Update
             \/ EchoRiseCapture(CaptureRiseTicks) \/ EchoFallCapture(FallTicks)]_vars

\* C13: the pause collision alert.  In MEASURE or SLEEP_WHILE_ON with
\* is_paused set, the display is enabled if and only if the distance that
\* do_display_distance has read since is_paused was set (or EMERGENCY was
\* left) is below WARNING_MIN_CM / 2; until it has read one the display is
\* disabled.
C13_PauseAlert ==
    urb.state \in {"MEASURE", "SLEEP_WHILE_ON"} /\ urb.is_paused
      => (disp.status <=> obs.fresh >= 0 /\ obs.fresh < WARNING_MIN_CM \div 2)

\* Paused, a sample of 5 cm read and its colour on the indicator.
C13_Witness ==
    /\ urb.state = "MEASURE"
    /\ urb.is_paused
    /\ obs.fresh = 5
    /\ disp.status
    /\ disp.rgb = _compute_display_levels(5)

\* C13 as stated: in MEASURE or SLEEP_WHILE_ON with is_paused set, the
\* display is enabled if and only if the most recent distance sample
\* delivered by the ultrasound is below WARNING_MIN_CM / 2.
C13_PauseAlertLastSample ==
    urb.state \in {"MEASURE", "SLEEP_WHILE_ON"} /\ urb.is_paused /\ obs.last >= 0
      => (disp.status <=> obs.last < WARNING_MIN_CM \div 2)

C15_ResumeRenders ==
    obs.since >= RenderIterations /\ disp.distance_cm >= 0
      => disp.rgb = _compute_display_levels(disp.distance_cm)

\* What the guards of the sleep rows read at an Urbanite fire that starts in
\* a sleep state, seen after the fire: these rows have no action but the
\* sleep, so the leaf FSMs are as the fire found them.
LeafActivity ==
    \/ btn'.state # "RELEASED"
    \/ disp'.status /\ ~disp'.idle

\* C16: the sleep wake.  An Urbanite fire in SLEEP_WHILE_OFF moves to OFF if
\* and only if a leaf FSM reports activity (the button FSM not in RELEASED,
\* the display enabled and not idle; the ultrasound never reports any).  An
\* Urbanite fire in SLEEP_WHILE_ON moves to MEASURE if and only if a new
\* measurement is ready; activity of the button or the display without one
\* leaves it in SLEEP_WHILE_ON with no row fired, so without going to sleep.
C16_SleepWake ==
    [][/\ urb.state = "SLEEP_WHILE_OFF"
            => /\ urb'.state = (IF LeafActivity THEN "OFF" ELSE "SLEEP_WHILE_OFF")
               /\ obs'.row = (IF LeafActivity THEN 2 ELSE 3)
       /\ urb.state = "SLEEP_WHILE_ON"
            => /\ urb'.state = (IF us'.new_measurement THEN "MEASURE"
                                ELSE "SLEEP_WHILE_ON")
               /\ obs'.row = (IF us'.new_measurement THEN 8
                              ELSE IF LeafActivity THEN 0 ELSE 9)]_vars

\* The button held down and the Urbanite FSM still in SLEEP_WHILE_ON after a
\* fire in which no row matched, no measurement being ready.
C16_Witness ==
    /\ urb.state = "SLEEP_WHILE_ON"
    /\ btn.state = "PRESSED"
    /\ obs.row = 0
    /\ ~us.new_measurement

\* C16 as stated: the Urbanite fire that finds a leaf FSM reporting activity
\* moves from SLEEP_WHILE_OFF to OFF and from SLEEP_WHILE_ON to MEASURE.
C16_SleepWakeAnyLeaf ==
    [][LeafActivity =>
         /\ urb.state = "SLEEP_WHILE_OFF" => urb'.state = "OFF"
         /\ urb.state = "SLEEP_WHILE_ON" => urb'.state = "MEASURE"]_vars

\* C17: the emergency flash.  In one stay in EMERGENCY the distances that the
\* display FSM renders are 0, 500, 0, 500, ...: the first is 0, they
\* alternate, and each Urbanite fire of the stay hands over the one that the
\* next fire of the enabled display FSM renders.
C17_EmergencyFlash ==
    [][/\ obs'.nflash = 1 => obs'.flash = 0
       /\ obs'.nflash = 2 => obs'.flash = EMERGENCY_DISTANCE_OFF_CM
       /\ obs.row = 12 /\ disp.state = "SET_DISPLAY"
            => obs'.rendered = disp.distance_cm]_vars

\* C18: pause survives emergency.  The fire that enters EMERGENCY, the fires
\* of the stay and the fire that leaves it keep is_paused; the fire that
\* returns to MEASURE leaves the display disabled if is_paused was set at the
\* entry and enabled otherwise.
C18_PauseSurvivesEmergency ==
    [][/\ obs'.row = 10 => urb'.state = "EMERGENCY" /\ urb'.is_paused = urb.is_paused
       /\ urb.state = "EMERGENCY" => urb'.is_paused = obs.was_paused
       /\ obs'.row = 11 => /\ urb.state = "EMERGENCY" /\ urb'.state = "MEASURE"
                           /\ disp'.status = ~obs.was_paused]_vars

\* Back in MEASURE from an EMERGENCY entered while paused: still paused, the
\* display disabled.
C18_Witness ==
    /\ obs.row = 11
    /\ urb.state = "MEASURE"
    /\ obs.was_paused
    /\ urb.is_paused
    /\ ~disp.status

\* The step in which do_set_distance stores the last raw distance of a window
\* and so produces a median.
WindowCompleted ==
    us.state = "WAIT_ECHO_END" /\ us'.state = "SET_DISTANCE"
    /\ us.distance_idx = FSM_ULTRASOUND_NUM_MEASUREMENTS - 1

SystemMeasuring == urb.state \in {"MEASURE", "SLEEP_WHILE_ON"}

\* C19: forwarding when not paused.  With the Urbanite FSM in MEASURE and
\* is_paused clear before and after the iteration, the median a window
\* produces is read in the same iteration and handed to the display with
\* exactly that value; a median left pending (produced in SLEEP_WHILE_ON, or
\* in an iteration that took a pause press) is handed over with its value by
\* the fire that reads it while is_paused is clear; while the system
\* measures, no window completes and the median does not change as long as
\* one is pending; and when a window completes the display has rendered
\* what it was handed before.
C19_ForwardingWhenNotPaused ==
    [][/\ WindowCompleted /\ urb.state = "MEASURE" /\ ~urb.is_paused /\ ~urb'.is_paused
            => /\ ~us'.new_measurement
               /\ disp'.distance_cm = us'.distance_cm
               /\ disp'.new_color
       /\ us.new_measurement /\ ~us'.new_measurement /\ ~urb.is_paused
            => disp'.distance_cm = us.distance_cm /\ disp'.new_color
       /\ us.new_measurement /\ SystemMeasuring
            => ~WindowCompleted /\ us'.distance_cm = us.distance_cm
       /\ WindowCompleted /\ SystemMeasuring /\ ~urb.is_paused
            => ~disp.new_color]_vars

\* A median read, handed over and rendered, the ultrasound already two
\* samples into the next window.
C19_Witness ==
    /\ urb.state = "MEASURE"
    /\ ~urb.is_paused
    /\ ~us.new_measurement
    /\ us.distance_cm = 10
    /\ us.distance_idx = 2
    /\ disp.distance_cm = 10
    /\ ~disp.new_color
    /\ disp.rgb = _compute_display_levels(10)

\* C20: the one-shot new sample.  new_measurement is raised by the step that
\* completes a window of N raw distances and by no other (a raw distance
\* that does not complete one leaves it as it is); it is cleared by the
\* reader, fsm_ultrasound_get_distance, and by nothing else; the reader runs
\* on check_new_measure only, so between two reads a window has completed.
C20_OneShotNewSample ==
    [][/\ WindowCompleted => us'.new_measurement /\ us'.distance_idx = 0
       /\ ~us.new_measurement /\ us'.new_measurement => WindowCompleted
       /\ us.new_measurement /\ ~us'.new_measurement => UrbaniteRead
       /\ UrbaniteRead => us.new_measurement /\ ~us'.new_measurement
                          /\ us'.distance_cm = us.distance_cm]_vars

\* A complete window whose median has been read: the flag is down again and
\* the next window has not begun.
C20_Witness ==
    /\ Len(obs.raw) = FSM_ULTRASOUND_NUM_MEASUREMENTS
    /\ us.distance_cm = 30
    /\ us.distance_idx = 0
    /\ us.status
    /\ ~us.new_measurement

\* C21: distance_cm of the ultrasound FSM changes only in the do_set_distance
\* that stores the N-th raw distance of a window, which sets it to the
\* median, and in fsm_ultrasound_start, which sets it to 0; stop, the reader
\* and the first N-1 raw distances of a window leave it as it is.
C21_DistanceUpdates ==
    [][us'.distance_cm # us.distance_cm
         => \/ WindowCompleted
            \/ ~us.status /\ us'.status /\ us'.distance_cm = 0]_vars

\* Started again after a window had given a median of 30 cm: the sorted
\* window is still in the array, the distance is back to 0.
C21_Witness ==
    /\ us.status
    /\ us.distance_cm = 0
    /\ us.distance_idx = 0
    /\ us.distance_arr = <<10, 10, 30, 30, 200>>
    /\ obs.raw = <<>>

\* C21 as stated: distance_cm changes only in the do_set_distance that stores
\* the N-th raw distance of a window; start and stop do not change it.
C21_DistanceOnlyOnWrap ==
    [][us'.distance_cm # us.distance_cm => WindowCompleted]_vars

\* C22: no pre-median exposure.  A distance that waits to be read while the
\* system measures is the median of a complete window of N raw distances
\* captured since the last start, which is the window the array holds: a
\* new_measurement flag does not survive a stop and a start so as to deliver
\* the distance_cm = 0 of the reset.
C22_NoPreMedianExposure ==
    SystemMeasuring /\ us.new_measurement => us.distance_cm = MedianOf(us.distance_arr)

BoundaryColour(d) ==
    CASE d = 0 -> COLOR_RED
      [] d = 25 -> COLOR_YELLOW
      [] d = 50 -> COLOR_GREEN
      [] d = 150 -> COLOR_TURQUOISE
      [] d = 175 -> COLOR_BLUE

\* C23: colour at the range boundaries.  For a distance of 0, 25, 50, 150 or
\* 175 cm the colour shown is an endpoint colour of the table (RED, YELLOW,
\* GREEN, TURQUOISE, BLUE): the interpolation parameter is exactly 0 at
\* distance 0 and exactly 255 at the upper bound of each range, so that
\* _interpolate_color returns the first, respectively the second, endpoint
\* colour whatever the two 8-bit colours are.
C23_BoundaryColours ==
    disp.distance_cm \in {0, 25, 50, 150, 175}
      => /\ disp.idle => disp.rgb = BoundaryColour(disp.distance_cm)
         /\ obs.mixed
              => /\ obs.t = (IF disp.distance_cm = 0 THEN 0 ELSE 255)
                 /\ obs.mix = (IF disp.distance_cm = 0 THEN obs.c1 ELSE obs.c2)

C23_Witness ==
    /\ disp.distance_cm = 150 /\ disp.idle /\ disp.rgb = COLOR_TURQUOISE
    /\ obs.mixed /\ obs.c1 = <<1, 128, 254>> /\ obs.c2 = <<200, 17, 99>>
    /\ obs.mix = <<200, 17, 99>>

\* The colour table as the specification words it: the range of a distance, the
\* parameter and the channels without any 8-bit truncation.
TableRange(d) ==
    IF 0 <= d /\ d <= 25 THEN <<0, 25, COLOR_RED, COLOR_YELLOW>>
    ELSE IF 25 < d /\ d <= 50 THEN <<25, 50, COLOR_YELLOW, COLOR_GREEN>>
    ELSE IF 50 < d /\ d <= 150 THEN <<50, 150, COLOR_GREEN, COLOR_TURQUOISE>>
    ELSE IF 150 < d /\ d <= 175 THEN <<150, 175, COLOR_TURQUOISE, COLOR_BLUE>>
    ELSE <<>>

TableT(d) == ((d - TableRange(d)[1]) * 255) \div (TableRange(d)[2] - TableRange(d)[1])

TableMix(c1, c2, t) == [k \in 1..3 |-> ((255 - t) * c1[k] + t * c2[k]) \div 255]

TableColour(d) ==
    IF TableRange(d) # <<>> THEN TableMix(TableRange(d)[3], TableRange(d)[4], TableT(d))
    ELSE IF 175 < d /\ d <= 200 THEN COLOR_BLUE
    ELSE COLOR_OFF

\* C24: the colour table.  For every distance of -1..500 cm the colour shown
\* is the one of the table: the range is selected by the bounds 0, 25, 50, 150,
\* 175 and 200 (OFF outside), the parameter is floor((d - lo) * 255 / (hi - lo)),
\* within 0..255, and each channel is floor(((255 - t) * c1 + t * c2) / 255);
\* d = 17 gives t = 173.
C24_ColourTable ==
    /\ disp.idle => disp.rgb = TableColour(disp.distance_cm)
    /\ obs.mixed
         => /\ obs.t = TableT(disp.distance_cm)
            /\ obs.t \in 0..255
            /\ obs.mix = TableMix(obs.c1, obs.c2, obs.t)
            /\ disp.distance_cm = 17 => obs.t = 173

C24_Witness ==
    /\ disp.distance_cm = 17 /\ disp.idle /\ disp.rgb = <<255, 173, 0>>
    /\ obs.mixed /\ obs.t = 173 /\ obs.c1 = COLOR_RED /\ obs.c2 = COLOR_YELLOW

C26_DebounceCorrectness ==
    obs.released /\ btn.state = "RELEASED"
      => /\ fsm_button_get_duration(World) = 0 <=> obs.raw < PORT_PARKING_BUTTON_DEBOUNCE_TIME_MS
         /\ obs.raw >= PORT_PARKING_BUTTON_DEBOUNCE_TIME_MS
              => /\ fsm_button_get_duration(World) - obs.raw < 2 * PORT_PARKING_BUTTON_DEBOUNCE_TIME_MS
                 /\ obs.raw - fsm_button_get_duration(World) < 2 * PORT_PARKING_BUTTON_DEBOUNCE_TIME_MS

\* C27: power-off clears the pause.  Whenever the Urbanite FSM is in OFF or
\* SLEEP_WHILE_OFF, is_paused is false; so the loop iteration that powers the
\* system on (row OFF/check_on) leaves it unpaused with the display enabled.
C27_PowerOffClearsPause ==
    /\ urb.state \in {"OFF", "SLEEP_WHILE_OFF"} => ~urb.is_paused
    /\ obs.row = 4 => urb.state = "MEASURE" /\ ~urb.is_paused /\ disp.status

C27_Witness ==
    obs.row = 13 /\ obs.was_paused /\ urb.state = "OFF" /\ ~urb.is_paused

\* C28: invalid peripheral id.  An init function of a port called with an id
\* outside the record array of the port ends with the id rejected as an error,
\* and no member of a record is read or written through the pointer obtained
\* for that id.
C28_InvalidIdRejected ==
    /\ obs.done["ultrasound"] /\ obs.ultrasound_id >= 1
         => obs.outcome["ultrasound"] = "rejected" /\ ~obs.deref["ultrasound"] /\ hw = ZeroPort
    /\ obs.done["display"] /\ obs.display_id >= 1
         => obs.outcome["display"] = "rejected" /\ ~obs.deref["display"]
    /\ obs.done["button"] /\ obs.button_id >= 1
         => obs.outcome["button"] = "rejected" /\ ~obs.deref["button"]

\* C29: no trigger while disabled.  The ultrasound FSM enters TRIGGER_START,
\* from WAIT_START or from SET_DISTANCE, only when the ultrasound is enabled
\* (status) and trigger_ready is set.
C29_NoTriggerWhileDisabled ==
    [][us.state # "TRIGGER_START" /\ us'.state = "TRIGGER_START"
         => us.status /\ hw.trigger_ready]_vars

\* C30: return to WAIT_START.  Whenever the ultrasound is disabled, whatever
\* state the ultrasound FSM is in, the FSM eventually reaches WAIT_START (unless
\* it is enabled again first), and once there it stays there for as long as the
\* ultrasound is disabled.
C30_ReturnToWaitStart ==
    /\ ~us.status ~> (us.state = "WAIT_START" \/ us.status)
    /\ [][~us.status /\ ~us'.status /\ us.state = "WAIT_START"
            => us'.state = "WAIT_START"]_vars

\* C31: measurements resume after re-arming.  With a sensor that answers every
\* trigger pulse, whenever the ultrasound is enabled by a start (power-on or
\* end of the emergency), whatever state the ultrasound FSM was stopped in, a
\* trigger pulse is eventually issued and new_measurement is eventually set,
\* unless the ultrasound is stopped again first.
C31_MeasurementsResume ==
    /\ us.status ~> (hw.trigger_pin \/ ~us.status)
    /\ us.status ~> (us.new_measurement \/ ~us.status)

\* C32: one trigger per cycle.  A measurement is started (the FSM enters
\* TRIGGER_START and the trigger pin goes high) only with trigger_ready set,
\* and starting it clears trigger_ready; trigger_ready is set again only by
\* the interrupt of the running cycle timer or by a start of the ultrasound.
\* So between two starts of a measurement one of the two has happened.
C32_OneTriggerPerCycle ==
    [][/\ us.state # "TRIGGER_START" /\ us'.state = "TRIGGER_START"
            => hw.trigger_ready /\ ~hw'.trigger_ready /\ hw'.trigger_pin
       /\ ~hw.trigger_ready /\ hw'.trigger_ready
            => \/ hw.tim5_cen /\ us' = us
               \/ ~us.status /\ us'.status]_vars

C32_Witness ==
    /\ us.state = "TRIGGER_START" /\ us.status /\ us.distance_idx = 2
    /\ hw.trigger_pin /\ ~hw.trigger_ready /\ hw.tim5_cen

\* The Urbanite table with the rows MEASURE -> EMERGENCY and MEASURE -> OFF
\* exchanged, and the row of the table it takes (in the numbering of the
\* table as written).
ExchangedTable ==
    [UrbaniteTable EXCEPT ![10] = UrbaniteTable[13], ![13] = UrbaniteTable[10]]

ExchangedRow(w) ==
    LET r == FirstRow(ExchangedTable, w.urb.state, UrbaniteGuards(w))
    IN  IF r = 10 THEN 13 ELSE IF r = 13 THEN 10 ELSE r

\* C33: guard disjointness in MEASURE.  For every stored press duration no two
\* of check_pause_display, check_off and check_emergency_on are true together,
\* so the table with the rows MEASURE -> EMERGENCY and MEASURE -> OFF exchanged
\* takes the same row, hence the same next state and action, in every state.
C33_GuardDisjointness ==
    /\ ~(check_off(World) /\ check_emergency_on(World))
    /\ ~(check_pause_display(World) /\ check_off(World))
    /\ ~(check_pause_display(World) /\ check_emergency_on(World))
    /\ ExchangedRow(World) = UrbaniteRow(World)

C33_Witness ==
    /\ ~obs.pending /\ obs.from = "on" /\ obs.held = 3100
    /\ urb.state = "EMERGENCY" /\ urb.emergency /\ ~us.status

\* C34: the ultrasound enable tracks the master state.  After every fire of the
\* Urbanite FSM the status of the ultrasound is true if and only if the
\* Urbanite FSM is in MEASURE or SLEEP_WHILE_ON.
C34_UltrasoundEnableTracksState ==
    us.status <=> urb.state \in {"MEASURE", "SLEEP_WHILE_ON"}

C34_Witness ==
    urb.state = "EMERGENCY" /\ ~us.status /\ us.state = "WAIT_ECHO_START" /\ disp.status

\* C35: the emergency flag tracks the master state.  After every fire of the
\* Urbanite FSM emergency is true if and only if the Urbanite FSM is in
\* EMERGENCY, and in EMERGENCY the display is enabled whether the system is
\* paused or not.
C35_EmergencyFlagTracksState ==
    /\ urb.emergency <=> urb.state = "EMERGENCY"
    /\ urb.state = "EMERGENCY" => disp.status

C35_Witness ==
    urb.state = "EMERGENCY" /\ urb.emergency /\ urb.is_paused /\ disp.status /\ obs.row = 12

\* C36: the trigger line.  In every reachable state the trigger line is high
\* only while the ultrasound FSM is in TRIGGER_START, and it is low while the
\* ultrasound is stopped.
C36_TriggerLine ==
    /\ hw.trigger_pin => us.state = "TRIGGER_START"
    /\ ~us.status => ~hw.trigger_pin

\* C37: the idle display is dark.  In every reachable state where the display
\* FSM is in WAIT_DISPLAY, the last colour written to the RGB LED is OFF and
\* idle is false.
C37_IdleDisplayDark ==
    disp.state = "WAIT_DISPLAY" => disp.rgb = COLOR_OFF /\ ~disp.idle

C37_Witness ==
    /\ disp.state = "WAIT_DISPLAY" /\ ~disp.status /\ disp.distance_cm = 30
    /\ ~disp.new_color /\ disp.rgb = COLOR_OFF /\ ~disp.idle /\ urb.state = "OFF"

\* C38: the indicator is dark when off.  The display FSM writes no colour
\* other than OFF while the display status is false, and whenever the Urbanite
\* FSM runs a sleep action from OFF or SLEEP_WHILE_OFF the last colour written
\* is OFF.
C38_DarkWhenOff ==
    [][/\ disp'.rgb # disp.rgb /\ disp'.rgb # COLOR_OFF => disp.status
       /\ obs'.row \in {1, 3} => disp'.rgb = COLOR_OFF]_vars

\* C39: no press is lost to sleep.  A press edge recorded after the Urbanite
\* FSM found no activity and before WFI is observed by the button FSM
\* (RELEASED -> PRESSED_WAIT) before the release edge clears the pressed flag:
\* no release edge finds the CPU still asleep with the flag set and the
\* button FSM in RELEASED.
C39_NoPressLostToSleep ==
    [][btn.down /\ ~btn'.down =>
         ~(cpu.pc = "asleep" /\ btn.flag_pressed /\ btn.state = "RELEASED")]_vars

====
